---- MODULE Spec2Model ----
(***************************************************************************)
(* State-machine model of the RAG backend (backend/app):                   *)
(*   - the local-index read path: IndexingService.startup, run by the      *)
(*     background worker of main.lifespan, the index implementations       *)
(*     (BasicNumpyIndex, NpCosineIndex), FileFingerprint, InMemoryStore,    *)
(*     QARetriever.retrieve and QAService.answer;                          *)
(*   - the ingestion path: ingest_json_service and _perform_ingest.        *)
(* Hashes are modelled as injective (a fingerprint is the pair it hashes), *)
(* a text is the sequence of its sentences, a sentence is <<id, length>>,  *)
(* and an embedding row is the text it embeds plus whether it has been     *)
(* divided by its norm.                                                    *)
(***************************************************************************)
EXTENDS Integers, Sequences, FiniteSets, TLC

\* ------------------------------------------------------------------ bounds
\* number of distinct contents the data file can take
MaxDataVersions == 2
\* the positive chunk budget tried next to 0 (CHUNK_LEN)
ChunkBudget == 3
\* largest candidate count k of a request
MaxK == 2
\* largest batch_size of an ingestion request
MaxBatch == 2
\* most rows of a matrix searched on its own
MaxRows == 3
\* longest hit list handed to _select_strong
MaxHits == 4
\* largest cite_top_k tried besides the one the container passes
MaxCite == 2
\* longest list of texts handed to embed_batch on its own
MaxTexts == 3
\* largest OLLAMA_EMBED_BATCH tried
MaxSubBatch == 2
\* most keys of a parsed object handed to _map_record on its own
MaxKeys == 3
\* most sentences and longest sentence of a text handed to _maybe_chunk on its
\* own, and the largest chunk budget tried
MaxSents == 3
MaxSentLen == 3
MaxBudget == 4
\* largest embedding dimension tried for the hash embeddings
MaxDim == 9

\* --------------------------------------------------------- program constants
\* cite_top_k passed by the container
CITE_TOP_K == 5
\* RAG_MIN_SIMILARITY default, in hundredths
MIN_SIM == 5
\* number of passes of the retry loop of ingest_json_service
MAX_ATTEMPTS == 3

VARIABLES
  \* ---- files on disk
  dataFile,      \* content of the data file: index of a corpus
  fpFile,        \* fp.json: "absent", "empty" (truncated) or a fingerprint
  npzFile,       \* the file at index_path (vectors.npz)
  npyFile,       \* the file at index_path + ".npy"
  \* ---- configuration of the process (environment variables)
  chunk_len,     \* CHUNK_LEN
  index_type,    \* INDEX_TYPE: "numpy" (BasicNumpyIndex) or "cosine" (NpCosineIndex)
  \* ---- memory of the process
  docs,          \* InMemoryStore.docs
  mat,           \* the index's matrix: "None" or a sequence of rows
  bpc,           \* position of the background worker
  bl,            \* locals of startup(): current, last, texts, embeddings, branch
  app,           \* AppState: status, complete, progress, stats, error
  \* ---- one request thread
  rpc,           \* position of the request
  rl,            \* locals of the request
  resp,          \* what the last finished request returned
  \* ---- ingestion
  ing            \* state of ingest_json_service / _perform_ingest and of the store

vars == <<dataFile, fpFile, npzFile, npyFile, chunk_len, index_type, docs, mat,
          bpc, bl, app, rpc, rl, resp, ing>>

fileVars == <<dataFile, fpFile, npzFile, npyFile>>
cfgVars  == <<chunk_len, index_type>>
reqVars  == <<rpc, rl, resp>>

\* ------------------------------------------------------------ helper: sums
RECURSIVE SumLen(_)
SumLen(sents) == IF sents = <<>> THEN 0 ELSE Head(sents)[2] + SumLen(Tail(sents))

\* len(" ".join(sents)): the sentences and one space between neighbours
TextLen(sents) == IF sents = <<>> THEN 0 ELSE SumLen(sents) + Len(sents) - 1

\* ------------------------------------------------------------- the corpora
DocA == [doc_id |-> "a", title |-> "A", text |-> << <<1, 2>>, <<2, 2>> >>]
DocB == [doc_id |-> "b", title |-> "B", text |-> << <<3, 3>> >>]
DocC == [doc_id |-> "c", title |-> "C", text |-> << <<4, 1>>, <<5, 1>>, <<6, 1>> >>]
DocPool == <<DocA, DocB, DocC>>

\* the documents InMemoryStore.load reads from a data file of content v
Corpus(v) == << DocPool[(v % 3) + 1], DocPool[((v + 1) % 3) + 1] >>

DataVersions == 1..MaxDataVersions

\* -------------------------------------------------------------- _maybe_chunk
RECURSIVE ChunkLoop(_, _, _, _, _)
ChunkLoop(sents, max_len, buf, cur, chunks) ==
  IF sents = <<>>
  THEN IF buf # <<>> THEN Append(chunks, buf) ELSE chunks
  ELSE LET s == Head(sents) IN
       IF cur + s[2] + 1 > max_len /\ buf # <<>>
       THEN ChunkLoop(Tail(sents), max_len, <<s>>, s[2], Append(chunks, buf))
       ELSE ChunkLoop(Tail(sents), max_len, Append(buf, s), cur + s[2] + 1, chunks)

_maybe_chunk(text, max_len) ==
  IF max_len = 0 \/ TextLen(text) <= max_len
  THEN <<text>>
  ELSE ChunkLoop(text, max_len, <<>>, 0, <<>>)

\* texts of startup(): for d in docs: texts.extend(_maybe_chunk(d.text, chunk_len))
RECURSIVE TextsOf(_, _)
TextsOf(ds, max_len) ==
  IF ds = <<>> THEN <<>>
  ELSE _maybe_chunk(Head(ds).text, max_len) \o TextsOf(Tail(ds), max_len)

\* ------------------------------------------------------------ Python values
\* Optional values: None is the empty set, a value x is {x}
None == {}
Some(x) == {x}
The(o) == CHOOSE x \in o : TRUE

\* a file that does not exist; a file has rows once it is being written and is
\* complete once the writer has closed it
NoFile == [present |-> FALSE, complete |-> FALSE, rows |-> <<>>]

\* the matrix attribute of an index: kind is "None", "array" or "NpzFile"
NoMat == [kind |-> "None", rows |-> <<>>]
Array(rows) == [kind |-> "array", rows |-> rows]

\* ---------------------------------------------------------- FileFingerprint
\* fingerprint(): sha256 of {data_fp, embedder_meta}; embedder_meta carries chunk_len
Fingerprint(data, clen) == Some([data_fp |-> data, chunk_len |-> clen])

\* build_container, lines 103-112: the embedder_meta handed to FileFingerprint
EmbedderMeta(dim, model, embed_mode, clen) ==
  [dim |-> dim, model |-> model, embed_mode |-> embed_mode, chunk_len |-> clen]

\* the hash of the file content alone
fingerprint_of_data(data, meta) == Some([data_fp |-> data])

\* fingerprint(), lines 22-26, with every field of embedder_meta: sha256 of the
\* key-sorted JSON of the file hash and the meta; both hashes taken as injective
fingerprint(data, meta) == Some([data_fp |-> data, embedder_meta |-> meta])

\* the sidecar: state is "absent", "empty" (opened for writing, nothing dumped) or "ok"
NoSidecar == [state |-> "absent", fp |-> None]

\* the fp text found in the file without parsing it as JSON
read_last_unparsed(f) == f.fp

\* read_last(): any failure to open or parse the sidecar gives None
read_last(f) == IF f.state = "ok" THEN f.fp ELSE None

\* ------------------------------------------------------------ the embedder
\* embed_batch: one vector per text, as the provider returns it
embed_batch(texts) == [i \in 1..Len(texts) |-> [text |-> texts[i], normalized |-> FALSE]]

\* ------------------------------------------------------------- index.build
\* M / norms: every row divided by its norm
Normalize(m) == [i \in 1..Len(m) |-> [m[i] EXCEPT !.normalized = TRUE]]

\* BasicNumpyIndex.build: M is prepared locally, self._mat assigned once
BasicNumpyBuild(embeddings) == Normalize(embeddings)

\* NpCosineIndex.build, line 16: self.mat = np.asarray(embeddings)
NpCosineBuildAssign(embeddings) == embeddings

\* NpCosineIndex.build, line 20: self.mat = self.mat / n
NpCosineBuildDivide(m) == Normalize(m)

\* np.asarray(embeddings, dtype=float32) raises on a ragged list (an empty vector
\* next to full ones)
Ragged(embeddings) == \E i \in 1..Len(embeddings) : embeddings[i].text = <<>>

\* ------------------------------------------------------- IndexingService.startup
\* the branch condition without the test for the artifact
NeedsRebuildFingerprintOnly(last, current, exists) == last # current

\* line 51: if last != current or not os.path.exists(self.index_path)
NeedsRebuild(last, current, exists) == last # current \/ ~exists

\* os.path.exists(index_path)
Exists(f) == f.present

BL0 == [current |-> None, last |-> None, exists |-> FALSE, texts |-> <<>>,
        embeddings |-> <<>>, branch |-> "none", embed_calls |-> 0, info |-> None]

\* AppState.__init__
App0 == [status |-> "not_started", complete |-> FALSE, progress |-> 0,
         stats |-> None, error |-> "None", startup_complete |-> FALSE]

\* a RetrievalResult: hits as retrieve returned them, the hits list as it is
\* now, and contexts
NoRR == [returned |-> <<>>, hits |-> <<>>, contexts |-> <<>>]

RL0 == [query |-> <<>>, k |-> 0, seen |-> NoMat, results |-> <<>>,
        store |-> <<>>, rr |-> NoRR]

\* no request has finished yet
NoResp == [kind |-> "none", exc |-> "", text |-> "", hits |-> <<>>,
           citations |-> <<>>, contexts |-> <<>>, generated |-> FALSE, gen |-> "none"]

\* index_build_complete set by every call, whatever the progress
update_progress_completes(a, progress, status) ==
  [a EXCEPT !.progress = IF progress < 0 THEN 0 ELSE IF progress > 100 THEN 100 ELSE progress,
            !.status = status,
            !.complete = TRUE,
            !.startup_complete = TRUE]

\* AppState.update_progress(progress, status), progress in percent
update_progress(a, progress, status) ==
  [a EXCEPT !.progress = IF progress < 0 THEN 0 ELSE IF progress > 100 THEN 100 ELSE progress,
            !.status = status,
            !.complete = IF progress >= 100 THEN TRUE ELSE @,
            !.startup_complete = IF progress >= 100 THEN TRUE ELSE @]

\* AppState.set_error(error)
set_error(a, error) ==
  [a EXCEPT !.status = "failed", !.error = error, !.startup_complete = TRUE]

\* main.lifespan, local index mode: the container is built, the build is
\* submitted to the executor, qa_service is set, startup_complete = True
Lifespan ==
  /\ bpc = "down"
  /\ bpc' = "submitted"
  /\ docs' = <<>> /\ mat' = NoMat /\ bl' = BL0
  /\ app' = [App0 EXCEPT !.startup_complete = TRUE]
  /\ rpc' = "idle" /\ rl' = RL0 /\ resp' = NoResp
  /\ UNCHANGED <<fileVars, cfgVars, ing>>

\* build_index_with_progress, line 133: update_progress(0.1, "building")
BuildBegin ==
  /\ bpc = "submitted"
  /\ app' = update_progress(app, 10, "building")
  /\ bpc' = "fingerprint"
  /\ UNCHANGED <<fileVars, cfgVars, docs, mat, bl, reqVars, ing>>

\* startup, line 49: current = self.fp.fingerprint(self.data_path)
ComputeFingerprint ==
  /\ bpc = "fingerprint"
  /\ bl' = [bl EXCEPT !.current = Fingerprint(dataFile, chunk_len)]
  /\ bpc' = "decide"
  /\ UNCHANGED <<fileVars, cfgVars, docs, mat, app, reqVars, ing>>

\* startup, lines 50-51: last = read_last(); the branch
Decide ==
  /\ bpc = "decide"
  /\ LET last == read_last(fpFile)
         ex   == Exists(npzFile)
         reb  == NeedsRebuild(last, bl.current, ex) IN
       /\ bl' = [bl EXCEPT !.last = last, !.exists = ex,
                           !.branch = IF reb THEN "rebuild" ELSE "load"]
       /\ bpc' = IF reb THEN "r_load" ELSE "l_load"
  /\ UNCHANGED <<fileVars, cfgVars, docs, mat, app, reqVars, ing>>

\* startup, lines 52-56: docs = store.load(data_path); texts
RebuildLoad ==
  /\ bpc = "r_load"
  /\ docs' = Corpus(dataFile)
  /\ bl' = [bl EXCEPT !.texts = TextsOf(Corpus(dataFile), chunk_len)]
  /\ bpc' = "r_embed"
  /\ UNCHANGED <<fileVars, cfgVars, mat, app, reqVars, ing>>

\* startup, line 57: embeddings = embedder.embed_batch(texts); the provider may
\* leave an entry empty (soft failure)
RebuildEmbed ==
  /\ bpc = "r_embed"
  /\ \E soft \in BOOLEAN :
       bl' = [bl EXCEPT !.embeddings =
                          IF soft THEN [embed_batch(bl.texts) EXCEPT ![1].text = <<>>]
                                  ELSE embed_batch(bl.texts),
                        !.embed_calls = @ + 1]
  /\ bpc' = "r_build"
  /\ UNCHANGED <<fileVars, cfgVars, docs, mat, app, reqVars, ing>>

\* startup, line 58: index.build(embeddings), first (for BasicNumpyIndex only) assignment
RebuildBuild ==
  /\ bpc = "r_build"
  /\ ~Ragged(bl.embeddings)
  /\ IF index_type = "numpy"
     THEN mat' = Array(BasicNumpyBuild(bl.embeddings)) /\ bpc' = "r_save"
     ELSE mat' = Array(NpCosineBuildAssign(bl.embeddings)) /\ bpc' = "r_build2"
  /\ UNCHANGED <<fileVars, cfgVars, docs, bl, app, reqVars, ing>>

\* NpCosineIndex.build, second assignment
RebuildBuildDivide ==
  /\ bpc = "r_build2"
  /\ mat' = Array(NpCosineBuildDivide(mat.rows))
  /\ bpc' = "r_save"
  /\ UNCHANGED <<fileVars, cfgVars, docs, bl, app, reqVars, ing>>

\* the file np.save / np.savez_compressed writes for a path: np.save appends
\* ".npy" to a name that does not end in it, savez appends ".npz" likewise;
\* index_path is <INDEX_DIR>/vectors.npz
SaveTarget(itype) == IF itype = "numpy" THEN "npz" ELSE "npy"

\* startup, line 59: index.save(index_path); the file is opened (truncated) and written
RebuildSaveOpen ==
  /\ bpc = "r_save"
  /\ IF SaveTarget(index_type) = "npz"
     THEN npzFile' = [present |-> TRUE, complete |-> FALSE, rows |-> mat.rows] /\ UNCHANGED npyFile
     ELSE npyFile' = [present |-> TRUE, complete |-> FALSE, rows |-> mat.rows] /\ UNCHANGED npzFile
  /\ bpc' = "r_save2"
  /\ UNCHANGED <<dataFile, fpFile, cfgVars, docs, mat, bl, app, reqVars, ing>>

RebuildSaveClose ==
  /\ bpc = "r_save2"
  /\ IF SaveTarget(index_type) = "npz"
     THEN npzFile' = [npzFile EXCEPT !.complete = TRUE] /\ UNCHANGED npyFile
     ELSE npyFile' = [npyFile EXCEPT !.complete = TRUE] /\ UNCHANGED npzFile
  /\ bpc' = "r_write"
  /\ UNCHANGED <<dataFile, fpFile, cfgVars, docs, mat, bl, app, reqVars, ing>>

\* startup, line 60: fp.write(current): open(state_path, "w") truncates the sidecar
RebuildWriteOpen ==
  /\ bpc = "r_write"
  /\ fpFile' = [state |-> "empty", fp |-> None]
  /\ bpc' = "r_write2"
  /\ UNCHANGED <<dataFile, npzFile, npyFile, cfgVars, docs, mat, bl, app, reqVars, ing>>

\* json.dump({"fp": fp}, f) and close
RebuildWriteDump ==
  /\ bpc = "r_write2"
  /\ fpFile' = [state |-> "ok", fp |-> bl.current]
  /\ bpc' = "r_return"
  /\ UNCHANGED <<dataFile, npzFile, npyFile, cfgVars, docs, mat, bl, app, reqVars, ing>>

\* startup, line 61
RebuildReturn ==
  /\ bpc = "r_return"
  /\ bl' = [bl EXCEPT !.info = Some([rebuilt |-> TRUE, count |-> Len(bl.texts)])]
  /\ bpc' = "finish"
  /\ UNCHANGED <<fileVars, cfgVars, docs, mat, app, reqVars, ing>>

\* startup, line 62: self.store.load(self.data_path)
LoadDocs ==
  /\ bpc = "l_load"
  /\ docs' = Corpus(dataFile)
  /\ bpc' = "l_index"
  /\ UNCHANGED <<fileVars, cfgVars, mat, bl, app, reqVars, ing>>

\* index.load(path): BasicNumpyIndex takes data["mat"]; NpCosineIndex keeps what
\* np.load returns, which for an .npz file is the archive object, not a matrix
IndexLoad(itype, f) ==
  IF itype = "numpy" THEN Array(f.rows) ELSE [kind |-> "NpzFile", rows |-> <<>>]

\* startup, lines 63-64; np.load raises on a truncated file
LoadIndex ==
  /\ bpc = "l_index"
  /\ Exists(npzFile) /\ npzFile.complete
  /\ mat' = IndexLoad(index_type, npzFile)
  /\ bl' = [bl EXCEPT !.info = Some([rebuilt |-> FALSE, count |-> Len(docs)])]
  /\ bpc' = "finish"
  /\ UNCHANGED <<fileVars, cfgVars, docs, app, reqVars, ing>>

\* build_index_with_progress, line 140: update_progress(1.0, "complete")
Finish ==
  /\ bpc = "finish"
  /\ app' = update_progress(app, 100, "complete")
  /\ bpc' = "stats"
  /\ UNCHANGED <<fileVars, cfgVars, docs, mat, bl, reqVars, ing>>

\* build_index_with_progress, line 141: set_index_stats(info)
SetStats ==
  /\ bpc = "stats"
  /\ app' = [app EXCEPT !.stats = bl.info]
  /\ bpc' = "done"
  /\ UNCHANGED <<fileVars, cfgVars, docs, mat, bl, reqVars, ing>>

\* build_index_with_progress, lines 146-149: an exception of startup() (np.asarray
\* on a ragged list, np.load on a missing or truncated file)
BuildFail ==
  /\ \/ bpc = "r_build" /\ Ragged(bl.embeddings)
     \/ bpc = "l_index" /\ ~(Exists(npzFile) /\ npzFile.complete)
  /\ app' = set_error(app, "Index building failed")
  /\ bpc' = "failed"
  /\ UNCHANGED <<fileVars, cfgVars, docs, mat, bl, reqVars, ing>>

\* the process dies (crash, kill, power loss): memory is lost, files stay as they are
Crash ==
  /\ bpc # "down"
  /\ bpc' = "down"
  /\ docs' = <<>> /\ mat' = NoMat /\ bl' = BL0 /\ app' = App0
  /\ rpc' = "idle" /\ rl' = RL0 /\ resp' = NoResp
  /\ UNCHANGED <<fileVars, cfgVars, ing>>

\* the data file is replaced by another content
ChangeDataFile ==
  /\ \E v \in DataVersions \ {dataFile} : dataFile' = v
  /\ UNCHANGED <<fpFile, npzFile, npyFile, cfgVars, docs, mat, bpc, bl, app, reqVars, ing>>

\* ------------------------------------------------------------------ search
\* cosine similarity of two texts, in hundredths: the same text, texts that
\* share a sentence, unrelated texts
Cosine(t, q) ==
  IF t = q THEN 100
  ELSE IF \E i \in 1..Len(t), j \in 1..Len(q) : t[i] = q[j] THEN 60 ELSE 20

\* one entry of sims = mat @ qn: the cosine only when the row has unit length;
\* a row as the provider returned it carries its own norm as a factor
Sim(row, q) == IF row.normalized THEN Cosine(row.text, q) ELSE 2 * Cosine(row.text, q)

\* sims = mat @ q
SimsOf(rows, q) == [i \in 1..Len(rows) |-> Sim(rows[i], q)]

\* the orders of the members of the set T
Perms(T) ==
  {p \in [1..Cardinality(T) -> T] : \A i, j \in 1..Cardinality(T) : i # j => p[i] # p[j]}

\* np.argpartition(-sims, kth): an order of all rows in which the row at place
\* kth (from 0) stands where a full sort would put it, no row before it scores
\* less and no row after it scores more; numpy fixes nothing else
ArgPartition(sims, kth) ==
  {p \in Perms(1..Len(sims)) :
     /\ \A i \in 1..kth : sims[p[i]] >= sims[p[kth + 1]]
     /\ \A i \in (kth + 2)..Len(sims) : sims[p[i]] <= sims[p[kth + 1]]}

\* idx[np.argsort(-sims[idx])]: the rows of idx by falling score; the default
\* sort is not stable, so rows of equal score come in any order
ArgSortDesc(sims, idx) ==
  {p \in Perms({idx[i] : i \in 1..Len(idx)}) :
     \A i, j \in 1..Len(idx) : i < j => sims[p[i]] >= sims[p[j]]}

\* idx[:k]
Take(idx, k) == SubSeq(idx, 1, IF k < Len(idx) THEN k ELSE Len(idx))

\* [(int(i), float(sims[i])) for i in idx], rows counted from 0
Pairs(sims, idx) == [i \in 1..Len(idx) |-> [row |-> idx[i] - 1, score |-> sims[idx[i]]]]

\* BasicNumpyIndex.search without the sort of the partitioned rows
BasicNumpySearchUnsorted(sims, k) ==
  LET kth == IF k < Len(sims) - 1 THEN k ELSE Len(sims) - 1 IN
  {Pairs(sims, Take(p, k)) : p \in ArgPartition(sims, kth)}

\* BasicNumpyIndex.search, lines 25-28, on a matrix that is there
BasicNumpySearch(sims, k) ==
  LET kth == IF k < Len(sims) - 1 THEN k ELSE Len(sims) - 1 IN
  UNION {{Pairs(sims, o) : o \in ArgSortDesc(sims, Take(p, k))}
         : p \in ArgPartition(sims, kth)}

\* NpCosineIndex.search, lines 39-44
NpCosineSearch(sims, k) ==
  IF k >= Len(sims)
  THEN {Pairs(sims, Take(o, k)) : o \in ArgSortDesc(sims, [i \in 1..Len(sims) |-> i])}
  ELSE UNION {{Pairs(sims, Take(o, k)) : o \in ArgSortDesc(sims, Take(p, k))}
              : p \in ArgPartition(sims, k)}

\* every result list the index of type itype can return for these scores
IndexSearch(itype, sims, k) ==
  IF itype = "numpy" THEN BasicNumpySearch(sims, k) ELSE NpCosineSearch(sims, k)

\* the k best rows (0-based), best first, equal scores in ascending row order
RECURSIVE TopK(_, _, _)
TopK(sims, k, left) ==
  IF k <= 0 \/ left = {} THEN <<>>
  ELSE LET best == CHOOSE i \in left : \A j \in left :
                     \/ sims[i] > sims[j]
                     \/ sims[i] = sims[j] /\ i <= j
       IN <<[row |-> best - 1, score |-> sims[best]]>> \o TopK(sims, k - 1, left \ {best})

\* what index.search does with the matrix attribute m, a query vector (empty
\* when the provider failed softly) and k: "assert" (BasicNumpyIndex on None),
\* "empty" (NpCosineIndex on None), "error" (a shape or type error of mat @ q),
\* or "ok" with the ranked rows
SearchOutcome(itype, m, qv_empty) ==
  IF m.kind = "None" THEN (IF itype = "numpy" THEN "assert" ELSE "empty")
  ELSE IF m.kind = "NpzFile" \/ qv_empty THEN "error"
  ELSE "ok"

search(itype, m, q, k) == IndexSearch(itype, SimsOf(m.rows, q), k)

\* the hydration loop ended by the first row that fails
RECURSIVE HydrateUntilFailure(_, _)
HydrateUntilFailure(results, ds) ==
  IF results = <<>> THEN <<>>
  ELSE LET r == Head(results) IN
       IF r.row + 1 <= Len(ds)
       THEN <<[doc_id |-> ds[r.row + 1].doc_id, title |-> ds[r.row + 1].title,
               score |-> r.score, chunk |-> ds[r.row + 1].text, row |-> r.row]>>
            \o HydrateUntilFailure(Tail(results), ds)
       ELSE <<>>

\* ------------------------------------------------------ QARetriever.retrieve
\* lines 41-47: a row outside the document list raises in store.get and is dropped;
\* row is kept with the hit to name the row it was built from
RECURSIVE Hydrate(_, _)
Hydrate(results, ds) ==
  IF results = <<>> THEN <<>>
  ELSE LET r == Head(results) IN
       (IF r.row + 1 <= Len(ds)
        THEN <<[doc_id |-> ds[r.row + 1].doc_id, title |-> ds[r.row + 1].title,
                score |-> r.score, chunk |-> ds[r.row + 1].text, row |-> r.row]>>
        ELSE <<>>) \o Hydrate(Tail(results), ds)

\* contexts with a blank entry kept for a row that fails
RECURSIVE HydrateContextsKeepSlot(_, _)
HydrateContextsKeepSlot(results, ds) ==
  IF results = <<>> THEN <<>>
  ELSE (IF Head(results).row + 1 <= Len(ds)
        THEN <<ds[Head(results).row + 1].text>> ELSE << <<>> >>)
       \o HydrateContextsKeepSlot(Tail(results), ds)

\* lines 41-47, the contexts list: doc.text is appended right after the hit, a
\* row that fails in store.get adds nothing
RECURSIVE HydrateContexts(_, _)
HydrateContexts(results, ds) ==
  IF results = <<>> THEN <<>>
  ELSE (IF Head(results).row + 1 <= Len(ds)
        THEN <<ds[Head(results).row + 1].text>> ELSE <<>>)
       \o HydrateContexts(Tail(results), ds)

\* ------------------------------------------------------ QAService._select_strong
\* hits.sort(key=score, reverse=True): stable
RECURSIVE InsertDesc(_, _)
InsertDesc(h, sorted) ==
  IF sorted = <<>> THEN <<h>>
  ELSE IF Head(sorted).score >= h.score
       THEN <<Head(sorted)>> \o InsertDesc(h, Tail(sorted))
       ELSE <<h>> \o sorted

RECURSIVE SortDesc(_)
SortDesc(hits) ==
  IF hits = <<>> THEN <<>>
  ELSE InsertDesc(hits[Len(hits)], SortDesc(SubSeq(hits, 1, Len(hits) - 1)))

\* twice statistics.median of the scores of a sorted hit list
Median2(sorted) ==
  LET n == Len(sorted) IN
  IF n % 2 = 1 THEN 2 * sorted[(n + 1) \div 2].score
  ELSE sorted[n \div 2].score + sorted[n \div 2 + 1].score

\* the cutoff without its median term
ClearsCutoffNoMedian(score, max_score, median2) ==
  /\ score >= MIN_SIM
  /\ 100 * score >= 35 * max_score

\* score >= max(MIN_SIM, 0.35 * max_score, 0.5 * median_score), scores in hundredths
ClearsCutoff(score, max_score, median2) ==
  /\ score >= MIN_SIM
  /\ 100 * score >= 35 * max_score
  /\ 4 * score >= median2

Prefix(seq, n) == SubSeq(seq, 1, IF n < Len(seq) THEN n ELSE Len(seq))

RECURSIVE Keep(_, _, _)
Keep(sorted, max_score, median2) ==
  IF sorted = <<>> THEN <<>>
  ELSE (IF ClearsCutoff(Head(sorted).score, max_score, median2)
        THEN <<Head(sorted)>> ELSE <<>>) \o Keep(Tail(sorted), max_score, median2)

\* the selection without the branch for an empty strong list
_select_strong_no_fallback(hits, cite_top_k) ==
  IF hits = <<>> THEN <<>>
  ELSE LET sorted == SortDesc(hits)
           max_score == sorted[1].score
           median2 == IF Len(sorted) > 1 THEN Median2(sorted) ELSE 2 * max_score
       IN Prefix(Keep(sorted, max_score, median2), cite_top_k)

\* lines 82-102
_select_strong(hits, cite_top_k) ==
  IF hits = <<>> THEN <<>>
  ELSE LET sorted == SortDesc(hits)
           max_score == sorted[1].score
           median2 == IF Len(sorted) > 1 THEN Median2(sorted) ELSE 2 * max_score
           strong == Keep(sorted, max_score, median2)
       IN Prefix(IF strong = <<>> THEN Prefix(sorted, cite_top_k) ELSE strong, cite_top_k)

\* --------------------------------------------------------- QAService.answer
RECURSIVE Chunks(_)
Chunks(hits) == IF hits = <<>> THEN <<>> ELSE <<Head(hits).chunk>> \o Chunks(Tail(hits))

\* lines 107-156, from the hits of retrieve on; gen is what generator.generate
\* does: "text", "blank" or "raise"
\* answer without the early return of lines 112-118
answer_without_short_circuit(hits, gen, cite_top_k) ==
  LET selected == _select_strong(hits, cite_top_k) IN
  [kind |-> "answer", exc |-> "", hits |-> hits,
   text |-> IF gen = "text" THEN "generated" ELSE "DEFAULT_FALLBACK",
   citations |-> selected, contexts |-> Chunks(selected), generated |-> TRUE, gen |-> gen]

\* answer without the substitutions of lines 142-149
answer_without_fallback(hits, gen, cite_top_k) ==
  IF hits = <<>>
  THEN [kind |-> "answer", exc |-> "", text |-> "NO_RESULTS", hits |-> <<>>,
        citations |-> <<>>, contexts |-> <<>>, generated |-> FALSE, gen |-> "none"]
  ELSE LET selected == _select_strong(hits, cite_top_k) IN
       [kind |-> "answer", exc |-> "", hits |-> hits,
        text |-> IF gen = "text" THEN "generated" ELSE "",
        citations |-> selected, contexts |-> Chunks(selected), generated |-> TRUE, gen |-> gen]

answer(hits, gen, cite_top_k) ==
  IF hits = <<>>
  THEN [kind |-> "answer", exc |-> "", text |-> "NO_RESULTS", hits |-> <<>>,
        citations |-> <<>>, contexts |-> <<>>, generated |-> FALSE, gen |-> "none"]
  ELSE LET selected == _select_strong(hits, cite_top_k) IN
       [kind |-> "answer", exc |-> "", hits |-> hits,
        text |-> IF gen = "text" THEN "generated" ELSE "DEFAULT_FALLBACK",
        citations |-> selected, contexts |-> Chunks(selected), generated |-> TRUE, gen |-> gen]

\* an exception that leaves answer() for the router
Raised(exc) == [kind |-> "raise", exc |-> exc, text |-> "", hits |-> <<>>,
                citations |-> <<>>, contexts |-> <<>>, generated |-> FALSE, gen |-> "none"]

\* the queries and candidate counts tried
Queries == {DocA.text, <<DocC.text[1]>>}
Ks == 1..MaxK

\* router.answer -> QAService.answer -> QARetriever.retrieve, lines 38-39:
\* qv = embedder.embed(query); results = index.search(qv, k)
ReqSearch ==
  /\ bpc # "down" /\ rpc = "idle"
  /\ \E q \in Queries, k \in Ks, qv_empty \in BOOLEAN :
       LET out == SearchOutcome(index_type, mat, qv_empty) IN
       /\ \E res \in (IF out = "ok" THEN search(index_type, mat, q, k) ELSE {<<>>}) :
            rl' = [query |-> q, k |-> k, seen |-> mat, results |-> res,
                   store |-> <<>>, rr |-> NoRR]
       /\ IF out \in {"assert", "error"}
          THEN /\ resp' = Raised(IF out = "assert" THEN "AssertionError" ELSE "ValueError")
               /\ rpc' = "responded"
          ELSE /\ resp' = NoResp
               /\ rpc' = "hydrate"
  /\ UNCHANGED <<fileVars, cfgVars, docs, mat, bpc, bl, app, ing>>

\* retrieve, lines 40-51 (hydration from the store as it is now), then the rest
\* of QAService.answer
ReqAnswer ==
  /\ rpc = "hydrate"
  /\ \E gen \in {"text", "blank", "raise"} :
       resp' = answer(Hydrate(rl.results, docs), gen, CITE_TOP_K)
  \* the RetrievalResult: _select_strong sorts its hits list in place (line 85)
  /\ rl' = [rl EXCEPT !.store = docs,
                      !.rr = [returned |-> Hydrate(rl.results, docs),
                              hits |-> SortDesc(Hydrate(rl.results, docs)),
                              contexts |-> HydrateContexts(rl.results, docs)]]
  /\ rpc' = "responded"
  /\ UNCHANGED <<fileVars, cfgVars, docs, mat, bpc, bl, app, ing>>

\* the response has been sent
ReqDone ==
  /\ rpc = "responded"
  /\ rpc' = "idle" /\ rl' = RL0 /\ resp' = NoResp
  /\ UNCHANGED <<fileVars, cfgVars, docs, mat, bpc, bl, app, ing>>

\* ================================================================ ingestion
\* the lines of the bulk .jsonl file: json is FALSE for a line json.loads
\* rejects; the other fields are what _map_record picks from the parsed object,
\* n is the place of the object among the parsed ones
Lines == << [json |-> TRUE,  n |-> 1, doc_id |-> "a", title |-> "t1", abstract |-> "x1"],
            [json |-> TRUE,  n |-> 2, doc_id |-> "",  title |-> "t2", abstract |-> "x2"],
            [json |-> FALSE, n |-> 0, doc_id |-> "",  title |-> "",   abstract |-> ""],
            [json |-> TRUE,  n |-> 3, doc_id |-> "b", title |-> "t3", abstract |-> "x3"],
            [json |-> TRUE,  n |-> 4, doc_id |-> "a", title |-> "t4", abstract |-> "x4"] >>

\* _iter_json_records, .jsonl branch: a line that does not parse is logged and
\* passed over, the others are yielded in order
RECURSIVE _iter_json_records(_)
_iter_json_records(lines) ==
  IF lines = <<>> THEN <<>>
  ELSE IF Head(lines).json
       THEN <<[n |-> Head(lines).n, doc_id |-> Head(lines).doc_id,
               title |-> Head(lines).title, abstract |-> Head(lines).abstract]>>
            \o _iter_json_records(Tail(lines))
       ELSE _iter_json_records(Tail(lines))

\* the records _perform_ingest iterates over, mapped to (doc_id, title, abstract)
Records == _iter_json_records(Lines)

\* _embedding_for in the default "hash" mode: a function of the abstract alone
_embedding_for(abstract) == <<"blake2b", abstract>>

\* the row the upsert statement writes for a record
RowOf(r) == [doc_id |-> r.doc_id, title |-> r.title, abstract |-> r.abstract,
             embedding |-> _embedding_for(r.abstract)]

DocIds == {"a", "b"}

\* db/session.py, init_pool: kwargs={"autocommit": True}
Autocommit == TRUE

\* a connection: dead when its server side is gone, closed when conn.closed
\* says so, fresh from getconn() until an operation on it fails
DepConn(dead, closed) == [src |-> "dep", dead |-> dead, closed |-> closed, fresh |-> FALSE]
PoolConn == [src |-> "pool", dead |-> FALSE, closed |-> FALSE, fresh |-> TRUE]

NoReq == [file_exists |-> TRUE, dim_ok |-> TRUE, batch_size |-> 1, update_fingerprint |-> FALSE]

\* the papers table: a set of rows
EmptyTable == {}

\* the fields models/ingest_model.py declares for IngestResult, as far as the
\* model follows them
IngestResultFields == {"fingerprint", "rows_processed", "rows_inserted", "rows_updated"}

\* IngestResult(**kwargs): a pydantic model keeps the declared fields and
\* ignores the other keyword arguments
IngestResult(kwargs) ==
  [k \in (DOMAIN kwargs) \cap IngestResultFields |-> kwargs[k]]

\* result.<name> raises AttributeError for a name the object does not have
HasAttr(obj, name) == name \in DOMAIN obj

\* locals of one _perform_ingest
Locals0 == [idx |-> 0, batch |-> <<>>, upos |-> 0, final |-> FALSE,
            rows_processed |-> 0, rows_inserted |-> 0, rows_updated |-> 0,
            rows_skipped |-> 0, fp |-> FALSE, committed |-> {}]

Ing0 == [pc |-> "idle", attempt |-> 0, conn |-> DepConn(FALSE, FALSE), storeUp |-> TRUE,
         getconns |-> 0, checked_out |-> 0, response |-> 0, req |-> NoReq,
         loc |-> Locals0,
         table |-> EmptyTable, txn |-> <<>>, corpus_state |-> FALSE,
         result |-> None, exc |-> "",
         ended_transient |-> 0, last_error |-> [kind |-> "", attempt |-> 0, getconns |-> 0]]

\* every error but AdminShutdown takes the re-acquiring branch
ClassifyReacquireAll(e) ==
  IF e = "AdminShutdown" THEN "retry" ELSE "reacquire"

\* ingest_json_service, lines 145-163: AdminShutdown is caught first and only
\* sleeps; an OperationalError whose text holds "closed" re-acquires; every
\* other exception is raised again
Classify(e) ==
  IF e = "AdminShutdown" THEN "retry"
  ELSE IF e = "OpClosed" THEN "reacquire"
  ELSE "raise"

\* what an operation on the connection c can raise: a dead connection fails the
\* operation with one of the two transient errors; any statement can fail with
\* a non-transient store error
Outcomes(c) ==
  IF c.dead THEN {"AdminShutdown", "OpClosed"} ELSE {"ok", "OpOther", "StoreError"}

\* psycopg_pool getconn(): a connection when the store accepts connections,
\* PoolTimeout (an OperationalError) when it does not
GetConnOk(i) == i.storeUp

\* the except clauses applied to the exception e raised inside the try block
Handle(i, e) ==
  LET seen == [i EXCEPT !.last_error = [kind |-> e, attempt |-> i.attempt,
                                         getconns |-> i.getconns],
                        !.conn = [@ EXCEPT !.fresh = FALSE,
                                           !.closed = @ \/ e \in {"AdminShutdown", "OpClosed"}]]
  IN IF Classify(e) = "retry"
     THEN [seen EXCEPT !.pc = "loop", !.ended_transient = i.attempt]
     ELSE IF Classify(e) = "reacquire"
     THEN [seen EXCEPT !.pc = "handler", !.ended_transient = i.attempt]
     ELSE [seen EXCEPT !.pc = "raised", !.exc = e]

\* cur.execute of the upsert statement for one row: with autocommit the row is
\* committed by the statement itself, otherwise it stays in the transaction
\* INSERT without the ON CONFLICT clause
UpsertInsertOnly(table, r) == table \cup {RowOf(r)}

\* INSERT ... ON CONFLICT (doc_id) DO UPDATE SET title, abstract, embedding
Upsert(table, r) == {x \in table : x.doc_id # r.doc_id} \cup {RowOf(r)}

\* RETURNING (xmax = 0) AS inserted: true when no row had the doc_id
IsFresh(table, r) == \A x \in table : x.doc_id # r.doc_id

Execute(i, row) ==
  IF Autocommit
  THEN [i EXCEPT !.table = Upsert(@, row), !.loc.committed = @ \cup {row.n}]
  ELSE [i EXCEPT !.txn = Append(@, row)]

RECURSIVE ApplyAll(_, _)
ApplyAll(table, rows) ==
  IF rows = <<>> THEN table ELSE ApplyAll(Upsert(table, Head(rows)), Tail(rows))

RowNs(rows) == {rows[j].n : j \in 1..Len(rows)}

\* conn.commit(): nothing to do on an autocommit connection
Commit(i) ==
  IF Autocommit THEN i
  ELSE [i EXCEPT !.table = ApplyAll(@, i.txn), !.txn = <<>>,
                 !.loc.committed = @ \cup RowNs(i.txn)]

\* router ingest_json: the call, with the connection get_db hands in
IngestCall ==
  /\ ing.pc = "idle"
  /\ \E fe \in BOOLEAN, dok \in BOOLEAN, bs \in 1..MaxBatch, uf \in BOOLEAN,
        dead \in BOOLEAN, closed \in BOOLEAN :
       /\ closed => dead
       /\ ~ing.storeUp => dead
       /\ ing' = [ing EXCEPT !.pc = "loop", !.attempt = 0, !.getconns = 0,
                             !.checked_out = 0, !.response = 0,
                             !.conn = DepConn(dead, closed),
                             !.req = [file_exists |-> fe, dim_ok |-> dok,
                                      batch_size |-> bs, update_fingerprint |-> uf],
                             !.loc = Locals0, !.txn = <<>>, !.result = None, !.exc = "",
                             !.ended_transient = 0,
                             !.last_error = [kind |-> "", attempt |-> 0, getconns |-> 0]]
  /\ UNCHANGED <<fileVars, cfgVars, docs, mat, bpc, bl, app, reqVars>>

\* line 134: for attempt in range(3); line 165 after the loop
LoopTop ==
  /\ ing.pc = "loop"
  /\ ing' = IF ing.attempt < MAX_ATTEMPTS
            THEN [ing EXCEPT !.pc = "check", !.attempt = @ + 1]
            ELSE [ing EXCEPT !.pc = "raised", !.exc = "RuntimeError"]
  /\ UNCHANGED <<fileVars, cfgVars, docs, mat, bpc, bl, app, reqVars>>

\* lines 137-141: a closed connection is replaced from the pool, inside the try
CheckConn ==
  /\ ing.pc = "check"
  /\ ing' = IF ~ing.conn.closed THEN [ing EXCEPT !.pc = "start"]
            ELSE IF GetConnOk(ing)
            THEN [ing EXCEPT !.pc = "start", !.conn = PoolConn, !.getconns = @ + 1,
                             !.checked_out = @ + 1]
            ELSE Handle([ing EXCEPT !.getconns = @ + 1], "PoolTimeout")
  /\ UNCHANGED <<fileVars, cfgVars, docs, mat, bpc, bl, app, reqVars>>

\* _perform_ingest, lines 172-187: the checks of the path and of the dimension
PerformStart ==
  /\ ing.pc = "start"
  /\ ing' = IF ~ing.req.file_exists THEN Handle(ing, "FileNotFoundError")
            ELSE IF ~ing.req.dim_ok THEN Handle(ing, "ValueError")
            ELSE [ing EXCEPT !.pc = "read", !.loc = Locals0]
  /\ UNCHANGED <<fileVars, cfgVars, docs, mat, bpc, bl, app, reqVars>>

\* the buffer flushed only when it holds more than batch_size rows
BatchFullLate(n, batch_size) == n > batch_size

\* line 201: if len(batch) >= request.batch_size
BatchFull(n, batch_size) == n >= batch_size

\* lines 189-201 and 207-208: the next record is skipped or buffered; a full
\* buffer, or a non-empty one at the end of the file, goes to _upsert_batch
ReadRecord ==
  /\ ing.pc = "read"
  /\ LET l == ing.loc IN
     ing' =
       IF l.idx < Len(Records)
       THEN LET r == Records[l.idx + 1] IN
            IF r.doc_id = "" \/ r.title = "" \/ r.abstract = ""
            THEN [ing EXCEPT !.loc.idx = @ + 1, !.loc.rows_skipped = @ + 1]
            ELSE [ing EXCEPT !.loc.idx = @ + 1, !.loc.rows_processed = @ + 1,
                             !.loc.batch = Append(@, r), !.loc.upos = 0,
                             !.pc = IF BatchFull(Len(l.batch) + 1, ing.req.batch_size)
                                    THEN "flush" ELSE "read"]
       ELSE IF l.batch # <<>>
            THEN [ing EXCEPT !.pc = "flush", !.loc.final = TRUE, !.loc.upos = 0]
            ELSE [ing EXCEPT !.pc = "fingerprint"]
  /\ UNCHANGED <<fileVars, cfgVars, docs, mat, bpc, bl, app, reqVars>>

\* a row counted only when it is new
CountRowNewOnly(l, isNew) ==
  IF isNew THEN [l EXCEPT !.rows_inserted = @ + 1] ELSE l

\* _upsert_batch, lines 119-122, with lines 203-204 and 210-211: the row is
\* counted as inserted or as updated
CountRow(l, isNew) ==
  IF isNew THEN [l EXCEPT !.rows_inserted = @ + 1]
  ELSE [l EXCEPT !.rows_updated = @ + 1]

\* _upsert_batch, lines 106-122: one row, counted as inserted or updated; after
\* the last row of a batch flushed in the loop the buffer is cleared
UpsertRow ==
  /\ ing.pc = "flush"
  /\ \E out \in Outcomes(ing.conn) :
       LET l == ing.loc
           row == l.batch[l.upos + 1]
           isNew == (IF Autocommit THEN IsFresh(ing.table, row)
                     ELSE IsFresh(ApplyAll(ing.table, ing.txn), row))
           done == [Execute(ing, row) EXCEPT
                      !.loc = [CountRow(@, isNew) EXCEPT !.upos = @ + 1]]
       IN ing' =
            IF out # "ok" THEN Handle(ing, out)
            ELSE IF l.upos + 1 < Len(l.batch) THEN done
            ELSE IF l.final THEN [done EXCEPT !.pc = "fingerprint"]
            ELSE [done EXCEPT !.pc = "read", !.loc.batch = <<>>, !.loc.upos = 0]
  /\ UNCHANGED <<fileVars, cfgVars, docs, mat, bpc, bl, app, reqVars>>

\* the corpus entry written whatever the request says
RecordFingerprintAlways(i) == [i EXCEPT !.loc.fp = TRUE, !.corpus_state = TRUE]

\* lines 214-225: if request.update_fingerprint, fp is computed and the corpus
\* entry is inserted or updated
RecordFingerprint(i) ==
  IF i.req.update_fingerprint
  THEN [i EXCEPT !.loc.fp = TRUE, !.corpus_state = TRUE]
  ELSE i

\* lines 214-227: the corpus fingerprint when requested, then conn.commit()
FingerprintAndCommit ==
  /\ ing.pc = "fingerprint"
  /\ \E out \in Outcomes(ing.conn) :
       ing' =
         IF out # "ok" THEN Handle(ing, out)
         ELSE LET f == RecordFingerprint(ing)
              IN [Commit(f) EXCEPT !.pc = "done",
                                   !.result = Some(IngestResult(
                                       [rows_processed |-> f.loc.rows_processed,
                                        rows_inserted |-> f.loc.rows_inserted,
                                        rows_updated |-> f.loc.rows_updated,
                                        rows_skipped |-> f.loc.rows_skipped,
                                        duplicates_found |-> f.loc.rows_updated,
                                        fingerprint |-> f.loc.fp]))]
  /\ UNCHANGED <<fileVars, cfgVars, docs, mat, bpc, bl, app, reqVars>>

\* lines 151-156: the handler of a lost connection takes a connection from the
\* pool, outside any try block
Reacquire ==
  /\ ing.pc = "handler"
  /\ ing' = IF GetConnOk(ing)
            THEN [ing EXCEPT !.pc = "loop", !.conn = PoolConn, !.getconns = @ + 1,
                             !.checked_out = @ + 1]
            ELSE [ing EXCEPT !.pc = "raised", !.exc = "PoolTimeout", !.getconns = @ + 1]
  /\ UNCHANGED <<fileVars, cfgVars, docs, mat, bpc, bl, app, reqVars>>

\* router ingest_json, lines 20-52: the status of the HTTP response. The log
\* call of lines 22-25 reads result.rows_skipped inside the try block; an
\* exception that is not FileNotFoundError becomes a 500
HttpStatus(i) ==
  IF i.pc = "done"
  THEN (IF HasAttr(The(i.result), "rows_skipped") THEN 200 ELSE 500)
  ELSE IF i.exc = "FileNotFoundError" THEN 400 ELSE 500

\* the router has answered the call
IngestReturn ==
  /\ ing.pc \in {"done", "raised"}
  /\ ing' = [ing EXCEPT !.pc = "idle", !.response = HttpStatus(ing)]
  /\ UNCHANGED <<fileVars, cfgVars, docs, mat, bpc, bl, app, reqVars>>

\* the store goes away (restart, network loss): every open connection dies
StoreDown ==
  /\ ing.storeUp
  /\ ing' = [ing EXCEPT !.storeUp = FALSE, !.conn.dead = TRUE]
  /\ UNCHANGED <<fileVars, cfgVars, docs, mat, bpc, bl, app, reqVars>>

\* the store accepts connections again
StoreUp ==
  /\ ~ing.storeUp
  /\ ing' = [ing EXCEPT !.storeUp = TRUE]
  /\ UNCHANGED <<fileVars, cfgVars, docs, mat, bpc, bl, app, reqVars>>

InitIngest ==
  /\ dataFile = 1
  /\ fpFile = NoSidecar /\ npzFile = NoFile /\ npyFile = NoFile
  /\ chunk_len = 0 /\ index_type = "numpy"
  /\ docs = <<>> /\ mat = NoMat /\ bpc = "down" /\ bl = BL0 /\ app = App0
  /\ rpc = "idle" /\ rl = RL0 /\ resp = NoResp
  /\ ing = Ing0

NextIngest ==
  \/ IngestCall \/ LoopTop \/ CheckConn \/ PerformStart \/ ReadRecord \/ UpsertRow
  \/ FingerprintAndCommit \/ Reacquire \/ IngestReturn \/ StoreDown \/ StoreUp

SpecIngest == InitIngest /\ [][NextIngest]_vars

\* ------------------------------------------- startup() over damaged sidecars
StoredFingerprints == {Fingerprint(v, c) : v \in DataVersions, c \in {0, ChunkBudget}}

\* a value under "fp" that is no fingerprint
NotAFingerprint == Some([data_fp |-> 0, chunk_len |-> 0])

\* sidecars as startup can find them: absent; empty; "garbled", not valid JSON
\* though the text of a fingerprint may be in it; "array", valid JSON that is no
\* object; "ok", an object, with a fingerprint, another value or nothing under "fp"
Sidecars ==
  {NoSidecar, [state |-> "empty", fp |-> None]}
  \cup [state : {"garbled", "array", "ok"},
        fp : StoredFingerprints \cup {None, NotAFingerprint}]

InitReadLast ==
  /\ dataFile \in DataVersions
  /\ fpFile \in Sidecars
  /\ npzFile \in {NoFile, [present |-> TRUE, complete |-> TRUE, rows |-> <<>>]}
  /\ npyFile = NoFile
  /\ chunk_len \in {0, ChunkBudget}
  /\ index_type \in {"numpy", "cosine"}
  /\ docs = <<>> /\ mat = NoMat /\ bpc = "fingerprint" /\ bl = BL0 /\ app = App0
  /\ rpc = "idle" /\ rl = RL0 /\ resp = NoResp
  /\ ing = Ing0

NextReadLast == ComputeFingerprint \/ Decide

SpecReadLast == InitReadLast /\ [][NextReadLast]_vars

\* ------------------------------------------------- fingerprint() on its own
\* a data file content with an embedder configuration
Setups ==
  [data : DataVersions, dim : {384, 768}, model : {"nomic-embed-text", "all-minilm"},
   embed_mode : {"ollama", "hash"}, chunk_len : {0, ChunkBudget}]

MetaOf(c) == EmbedderMeta(c.dim, c.model, c.embed_mode, c.chunk_len)

InitFingerprint ==
  /\ dataFile = 1
  /\ fpFile = NoSidecar /\ npzFile = NoFile /\ npyFile = NoFile
  /\ chunk_len = 0 /\ index_type = "numpy"
  /\ docs = <<>> /\ mat = NoMat /\ bpc = "down" /\ bl = BL0 /\ app = App0
  /\ ing = Ing0
  /\ rpc = "fingerprint"
  /\ resp = NoResp
  /\ \E a \in Setups, b \in Setups : rl = [a |-> a, b |-> b]

\* fingerprint() called twice under setup a and once under setup b
TakeFingerprints ==
  /\ rpc = "fingerprint"
  /\ rpc' = "fingerprinted"
  /\ resp' = [NoResp EXCEPT !.kind = "fingerprints",
                            !.hits = << fingerprint(rl.a.data, MetaOf(rl.a)),
                                        fingerprint(rl.a.data, MetaOf(rl.a)),
                                        fingerprint(rl.b.data, MetaOf(rl.b)) >>]
  /\ UNCHANGED <<fileVars, cfgVars, docs, mat, bpc, bl, app, rl, ing>>

NextFingerprint == TakeFingerprints

SpecFingerprint == InitFingerprint /\ [][NextFingerprint]_vars

\* ------------------------------------------- index.save / index.load on their own
\* built matrices of 1..MaxRows rows
BuiltMatrices ==
  UNION {{Normalize(embed_batch(t)) : t \in [1..n -> {DocA.text, DocB.text, DocC.text}]}
         : n \in 1..MaxRows}

InitSaveLoad ==
  /\ dataFile = 1
  /\ fpFile = NoSidecar /\ npzFile = NoFile /\ npyFile = NoFile
  /\ chunk_len = 0 /\ index_type \in {"numpy", "cosine"}
  /\ docs = <<>> /\ bpc = "down" /\ bl = BL0 /\ app = App0
  /\ ing = Ing0
  /\ rpc = "save"
  /\ resp = NoResp
  /\ \E m \in BuiltMatrices : mat = Array(m) /\ rl = [saved |-> m]

\* index.save(index_path), index_path = INDEX_DIR/vectors.npz: savez_compressed
\* writes that file, np.save writes to the name with ".npy" appended
IndexSave ==
  /\ rpc = "save"
  /\ IF SaveTarget(index_type) = "npz"
     THEN npzFile' = [present |-> TRUE, complete |-> TRUE, rows |-> mat.rows] /\ UNCHANGED npyFile
     ELSE npyFile' = [present |-> TRUE, complete |-> TRUE, rows |-> mat.rows] /\ UNCHANGED npzFile
  /\ rpc' = "load"
  /\ UNCHANGED <<dataFile, fpFile, cfgVars, docs, mat, bpc, bl, app, rl, resp, ing>>

\* index.load(index_path) on a fresh index object: np.load raises when there is
\* no file of that name
IndexLoadPath ==
  /\ rpc = "load"
  /\ IF Exists(npzFile)
     THEN /\ mat' = IndexLoad(index_type, npzFile)
          /\ resp' = [NoResp EXCEPT !.kind = "loaded"]
     ELSE /\ mat' = NoMat
          /\ resp' = Raised("FileNotFoundError")
  /\ rpc' = "loaded"
  /\ UNCHANGED <<fileVars, cfgVars, docs, bpc, bl, app, rl, ing>>

NextSaveLoad == IndexSave \/ IndexLoadPath

SpecSaveLoad == InitSaveLoad /\ [][NextSaveLoad]_vars

\* ---------------------------------------------------- index.search on its own
\* score vectors mat @ q of matrices of 1..MaxRows rows, equal scores among them
SimVectors == UNION {[1..n -> {20, 60, 100}] : n \in 1..MaxRows}

InitSearch ==
  /\ dataFile = 1
  /\ fpFile = NoSidecar /\ npzFile = NoFile /\ npyFile = NoFile
  /\ chunk_len = 0 /\ index_type \in {"numpy", "cosine"}
  /\ docs = <<>> /\ mat = NoMat /\ bpc = "down" /\ bl = BL0 /\ app = App0
  /\ ing = Ing0
  /\ rpc = "search"
  /\ resp = NoResp
  /\ \E v \in SimVectors, k \in 0..(MaxRows + 1) : rl = [sims |-> v, k |-> k]

\* index.search(qv, k) on a built index
Search ==
  /\ rpc = "search"
  /\ rpc' = "searched"
  /\ \E res \in IndexSearch(index_type, rl.sims, rl.k) :
       resp' = [NoResp EXCEPT !.kind = "results", !.hits = res]
  /\ UNCHANGED <<fileVars, cfgVars, docs, mat, bpc, bl, app, rl, ing>>

NextSearch == Search

SpecSearch == InitSearch /\ [][NextSearch]_vars

\* ------------------------------------------------- _select_strong on its own
\* scores in hundredths, the ones of the worked examples among them
Scores == {-10, 3, 4, 10, 40, 50, 90}

\* hit lists as retrieve hands them to _select_strong: hit i of the list has
\* doc_id i
HitLists ==
  UNION {{[i \in 1..n |-> [doc_id |-> i, score |-> f[i]]] : f \in [1..n -> Scores]}
         : n \in 0..MaxHits}

CiteKs == (1..MaxCite) \cup {CITE_TOP_K}

InitSelect ==
  /\ dataFile = 1
  /\ fpFile = NoSidecar /\ npzFile = NoFile /\ npyFile = NoFile
  /\ chunk_len = 0 /\ index_type = "numpy"
  /\ docs = <<>> /\ mat = NoMat /\ bpc = "down" /\ bl = BL0 /\ app = App0
  /\ ing = Ing0
  /\ rpc = "select"
  /\ resp = NoResp
  /\ \E hs \in HitLists, c \in CiteKs : rl = [hits |-> hs, cite_top_k |-> c]

\* QAService.answer, line 121: selected = self._select_strong(hits)
SelectStrong ==
  /\ rpc = "select"
  /\ rpc' = "selected"
  /\ resp' = [NoResp EXCEPT !.kind = "selection",
                            !.citations = _select_strong(rl.hits, rl.cite_top_k)]
  /\ UNCHANGED <<fileVars, cfgVars, docs, mat, bpc, bl, app, rl, ing>>

NextSelect == SelectStrong

SpecSelect == InitSelect /\ [][NextSelect]_vars

\* ------------------------------------------- OllamaEmbedding.embed_batch on its own
\* a text is a sequence of characters; " " is whitespace
Texts == {<<>>, <<" ">>, <<"a">>, <<" ", "b">>, <<"b", " ">>}

TextLists == UNION {[1..n -> Texts] : n \in 0..MaxTexts}

\* OLLAMA_EMBED_BATCH
BatchSizes == 1..MaxSubBatch

RECURSIVE lstrip(_)
lstrip(t) == IF t # <<>> /\ Head(t) = " " THEN lstrip(Tail(t)) ELSE t

RECURSIVE rstrip(_)
rstrip(t) ==
  IF t # <<>> /\ t[Len(t)] = " " THEN rstrip(SubSeq(t, 1, Len(t) - 1)) ELSE t

\* str.strip()
strip(t) == rstrip(lstrip(t))

\* _batch, line 86: clean = [(t or "").strip() for t in texts]
Clean(texts) == [i \in 1..Len(texts) |-> strip(texts[i])]

RECURSIVE IdxsFrom(_, _)
IdxsFrom(clean, i) ==
  IF i > Len(clean) THEN <<>>
  ELSE (IF clean[i] # <<>> THEN <<i>> ELSE <<>>) \o IdxsFrom(clean, i + 1)

\* _batch, line 87: idxs = [i for i, t in enumerate(clean) if t]; positions
\* count from 1 here
Idxs(clean) == IdxsFrom(clean, 1)

\* _batch, line 94: sub_idxs = idxs[start:start + self.batch_size], start counted
\* from 0 as in the code
SubIdxs(idxs, start, batch_size) ==
  SubSeq(idxs, start + 1, IF start + batch_size < Len(idxs) THEN start + batch_size
                          ELSE Len(idxs))

\* the empty list [] of an entry without a vector
EmptyVec == [of |-> <<>>]

\* the normalised vector the provider computes for an input: the vectors of
\* different inputs differ
Embedding(input) == [of |-> input]

\* data.get("embeddings") of a response that passes the length test of line
\* 104: one entry per input, in the order of the inputs, each either the vector
\* of its input or an entry that fails the test of line 107 (empty, not numbers)
ProviderAnswers(inputs) ==
  {[j \in 1..Len(inputs) |-> IF good[j] THEN Embedding(inputs[j]) ELSE EmptyVec]
     : good \in [1..Len(inputs) -> BOOLEAN]}

\* the embeddings written by their position in the sub-batch
ScatterByPosition(out, sub_idxs, embs) ==
  [i \in 1..Len(out) |->
     IF i <= Len(embs) /\ embs[i] # EmptyVec THEN embs[i] ELSE out[i]]

\* _batch, lines 106-108: for slot, vec in zip(sub_idxs, embs): out[slot] = vec
\* for the entries that hold numbers
Scatter(out, sub_idxs, embs) ==
  [i \in 1..Len(out) |->
     IF \E j \in 1..Len(sub_idxs) : sub_idxs[j] = i /\ embs[j] # EmptyVec
     THEN embs[CHOOSE j \in 1..Len(sub_idxs) : sub_idxs[j] = i]
     ELSE out[i]]

\* _one(text): [] for a blank text; otherwise the vector of the stripped text,
\* or [] when the three attempts gave none
_one(text) ==
  IF strip(text) = <<>> THEN {EmptyVec} ELSE {Embedding(strip(text)), EmptyVec}

\* every slot requested again, blank or filled
NeedsOneAlways(out, texts, i) == TRUE

\* embed_batch, line 125: if not v and texts[i].strip()
NeedsOne(out, texts, i) == out[i] = EmptyVec /\ strip(texts[i]) # <<>>

\* the locals of embed_batch and _batch; asked lists the positions handed to
\* _one, batch_out is what _batch returned
EmbedLocals(texts, batch_size) ==
  [texts |-> texts, batch_size |-> batch_size,
   out |-> [i \in 1..Len(texts) |-> EmptyVec], start |-> 0, i |-> 1,
   batch_out |-> <<>>, asked |-> <<>>]

InitEmbed ==
  /\ dataFile = 1
  /\ fpFile = NoSidecar /\ npzFile = NoFile /\ npyFile = NoFile
  /\ chunk_len = 0 /\ index_type = "numpy"
  /\ docs = <<>> /\ mat = NoMat /\ bpc = "down" /\ bl = BL0 /\ app = App0
  /\ ing = Ing0
  /\ rpc = "batch"
  /\ resp = NoResp
  /\ \E texts \in TextLists, b \in BatchSizes : rl = EmbedLocals(texts, b)

\* _batch, one pass of the loop of line 93: the request of a sub-batch, whose
\* three attempts either all fail (out is left as it is) or end with an answer
BatchRequest ==
  /\ rpc = "batch"
  /\ rl.start < Len(Idxs(Clean(rl.texts)))
  /\ LET clean == Clean(rl.texts)
         sub_idxs == SubIdxs(Idxs(clean), rl.start, rl.batch_size)
         batch_inputs == [j \in 1..Len(sub_idxs) |-> clean[sub_idxs[j]]]
     IN \E failed \in BOOLEAN, embs \in ProviderAnswers(batch_inputs) :
          rl' = [rl EXCEPT !.out = IF failed THEN @ ELSE Scatter(@, sub_idxs, embs),
                           !.start = @ + rl.batch_size]
  /\ UNCHANGED <<fileVars, cfgVars, docs, mat, bpc, bl, app, rpc, resp, ing>>

\* _batch, lines 89-90 and 113: return out; embed_batch, line 122
BatchReturn ==
  /\ rpc = "batch"
  /\ rl.start >= Len(Idxs(Clean(rl.texts)))
  /\ rpc' = "fallback"
  /\ rl' = [rl EXCEPT !.batch_out = rl.out]
  /\ UNCHANGED <<fileVars, cfgVars, docs, mat, bpc, bl, app, resp, ing>>

\* embed_batch, one pass of the loop of lines 124-126
FallbackStep ==
  /\ rpc = "fallback"
  /\ rl.i <= Len(rl.texts)
  /\ IF NeedsOne(rl.out, rl.texts, rl.i)
     THEN \E v \in _one(rl.texts[rl.i]) :
            rl' = [rl EXCEPT !.out[rl.i] = v, !.asked = Append(@, rl.i), !.i = @ + 1]
     ELSE rl' = [rl EXCEPT !.i = @ + 1]
  /\ UNCHANGED <<fileVars, cfgVars, docs, mat, bpc, bl, app, rpc, resp, ing>>

\* embed_batch, line 127: return embs
EmbedReturn ==
  /\ rpc = "fallback"
  /\ rl.i > Len(rl.texts)
  /\ rpc' = "returned"
  /\ resp' = [NoResp EXCEPT !.kind = "embeddings", !.hits = rl.out]
  /\ UNCHANGED <<fileVars, cfgVars, docs, mat, bpc, bl, app, rl, ing>>

NextEmbed == BatchRequest \/ BatchReturn \/ FallbackStep \/ EmbedReturn

SpecEmbed == InitEmbed /\ [][NextEmbed]_vars

\* ------------------------------------------------ _map_record on its own
\* the alias lists of ingest_service._map_record
IdKeys == <<"id", "doc_id", "paperId", "uid", "uuid">>
TitleKeys == <<"title", "paper_title", "name">>
AbstractKeys == <<"abstract", "summary", "abstract_text", "text", "description">>
\* the third alias list of inmemory_store._map_record
TextKeys == <<"abstract", "summary", "abstract_text", "text", "description", "body">>

Range(seq) == {seq[j] : j \in 1..Len(seq)}

\* the keys an object of the bulk file may carry: the aliases and one other key
AllKeys == Range(IdKeys) \cup Range(TitleKeys) \cup Range(TextKeys) \cup {"year"}

\* the values tried under a key: a string of whitespace, a number, and a
\* string that holds the key's own name with whitespace around it
Kinds == {"blank", "number", "good"}

ValueOf(k, kind) ==
  IF kind = "blank" THEN [type |-> "str", s |-> <<" ">>]
  ELSE IF kind = "number" THEN [type |-> "int", s |-> <<>>]
  ELSE [type |-> "str", s |-> <<" ", k, " ">>]

NoFields == [k \in {} |-> "blank"]

\* what json.loads / json.load yields for a line or a list element: an object
\* with at most MaxKeys keys, or a value of another JSON type
ParsedValues ==
  {[type |-> "dict", fields |-> f] :
     f \in UNION {[K -> Kinds] : K \in {K \in SUBSET AllKeys : Cardinality(K) <= MaxKeys}}}
  \cup {[type |-> t, fields |-> NoFields] : t \in {"list", "str", "int", "NoneType"}}

\* obj.get(k)
get(obj, k) ==
  IF k \in DOMAIN obj.fields THEN ValueOf(k, obj.fields[k])
  ELSE [type |-> "NoneType", s |-> <<>>]

\* _pick(obj, keys), the same in ingest_service and inmemory_store
RECURSIVE _pick(_, _)
_pick(obj, keys) ==
  IF keys = <<>> THEN <<>>
  ELSE LET v == get(obj, Head(keys)) IN
       IF v.type = "str" /\ strip(v.s) # <<>> THEN strip(v.s)
       ELSE _pick(obj, Tail(keys))

\* ingest_service._map_record
_map_record(obj) ==
  [doc_id |-> _pick(obj, IdKeys), title |-> _pick(obj, TitleKeys),
   body |-> _pick(obj, AbstractKeys)]

\* inmemory_store._map_record, the fields before the test of line 19
store_map_record(obj) ==
  [doc_id |-> _pick(obj, IdKeys), title |-> _pick(obj, TitleKeys),
   body |-> _pick(obj, TextKeys)]

NoFieldsPicked == [doc_id |-> <<>>, title |-> <<>>, body |-> <<>>]

\* one parsed value on its way through a loader: mapper is "ingest"
\* (_perform_ingest) or "store" (InMemoryStore.load), suffix the file's suffix
MapLocals(mapper, suffix, obj) ==
  [mapper |-> mapper, suffix |-> suffix, obj |-> obj, mapped |-> NoFieldsPicked,
   rows_skipped |-> 0, rows_processed |-> 0, batch |-> <<>>, docs |-> <<>>]

InitMap ==
  /\ dataFile = 1
  /\ fpFile = NoSidecar /\ npzFile = NoFile /\ npyFile = NoFile
  /\ chunk_len = 0 /\ index_type = "numpy"
  /\ docs = <<>> /\ mat = NoMat /\ bpc = "down" /\ bl = BL0 /\ app = App0
  /\ ing = Ing0
  /\ rpc = "parsed"
  /\ resp = NoResp
  /\ \E mapper \in {"ingest", "store"}, suffix \in {".jsonl", ".json"},
        obj \in ParsedValues : rl = MapLocals(mapper, suffix, obj)

\* _iter_json_records, lines 68 and 76-78, and InMemoryStore.load, lines 36 and
\* 45-46: a .jsonl line's value goes on whatever its type, an element of the
\* list of a .json file only when it is a dict
Yield ==
  /\ rpc = "parsed"
  /\ rpc' = IF rl.suffix = ".json" /\ rl.obj.type # "dict" THEN "dropped" ELSE "yielded"
  /\ UNCHANGED <<fileVars, cfgVars, docs, mat, bpc, bl, app, rl, resp, ing>>

\* _perform_ingest, lines 189-199, inside the try block of ingest_json_service:
\* obj.get of a value that is not a dict raises AttributeError, which the
\* except clauses pass on
MapIngest ==
  /\ rpc = "yielded" /\ rl.mapper = "ingest"
  /\ IF rl.obj.type # "dict"
     THEN /\ Classify("AttributeError") = "raise"
          /\ rpc' = "raised"
          /\ resp' = [NoResp EXCEPT !.kind = "raise", !.exc = "AttributeError"]
          /\ rl' = rl
     ELSE LET m == _map_record(rl.obj) IN
          /\ resp' = resp
          /\ IF m.doc_id = <<>> \/ m.title = <<>> \/ m.body = <<>>
             THEN /\ rpc' = "skipped"
                  /\ rl' = [rl EXCEPT !.mapped = m, !.rows_skipped = @ + 1]
             ELSE /\ rpc' = "buffered"
                  /\ rl' = [rl EXCEPT !.mapped = m, !.rows_processed = @ + 1,
                                      !.batch = Append(@, m)]
  /\ UNCHANGED <<fileVars, cfgVars, docs, mat, bpc, bl, app, ing>>

\* InMemoryStore.load, lines 35-40 and 47-48: the exception of a value that is
\* not a dict is swallowed, a record without one of the fields gives no Document
MapStore ==
  /\ rpc = "yielded" /\ rl.mapper = "store"
  /\ IF rl.obj.type # "dict"
     THEN rpc' = "not_loaded" /\ rl' = rl
     ELSE LET m == store_map_record(rl.obj) IN
          IF m.doc_id = <<>> \/ m.title = <<>> \/ m.body = <<>>
          THEN rpc' = "not_loaded" /\ rl' = rl
          ELSE rpc' = "loaded" /\ rl' = [rl EXCEPT !.mapped = m, !.docs = Append(@, m)]
  /\ UNCHANGED <<fileVars, cfgVars, docs, mat, bpc, bl, app, resp, ing>>

NextMap == Yield \/ MapIngest \/ MapStore

SpecMap == InitMap /\ [][NextMap]_vars

\* ------------------------------------------------- _maybe_chunk on its own
\* texts of one to MaxSents sentences; sentence i of a text is <<i, its length>>
SentTexts ==
  UNION {{[i \in 1..n |-> <<i, f[i]>>] : f \in [1..n -> 1..MaxSentLen]} : n \in 1..MaxSents}

InitChunk ==
  /\ dataFile = 1
  /\ fpFile = NoSidecar /\ npzFile = NoFile /\ npyFile = NoFile
  /\ chunk_len = 0 /\ index_type = "numpy"
  /\ docs = <<>> /\ mat = NoMat /\ bpc = "down" /\ bl = BL0 /\ app = App0
  /\ ing = Ing0
  /\ rpc = "chunk"
  /\ resp = NoResp
  /\ \E text \in SentTexts, max_len \in 0..MaxBudget :
       rl = [text |-> text, max_len |-> max_len, chunks |-> <<>>]

\* startup, line 56: _maybe_chunk(d.text, self.chunk_len)
Chunk ==
  /\ rpc = "chunk"
  /\ rpc' = "chunked"
  /\ rl' = [rl EXCEPT !.chunks = _maybe_chunk(rl.text, rl.max_len)]
  /\ UNCHANGED <<fileVars, cfgVars, docs, mat, bpc, bl, app, resp, ing>>

NextChunk == Chunk

SpecChunk == InitChunk /\ [][NextChunk]_vars

\* ------------------------------------------------ HybridEmbedding.embed on its own
\* the vector HashEmbedding computes for a text: never empty, and not a vector
\* of the provider
HashVector(text) == [of |-> <<"blake2b">> \o text]

\* what primary.embed handed to the try block of HybridEmbedding.embed
Returned(v) == [raised |-> FALSE, v |-> v]

\* HybridEmbedding.embed, lines 20-24: the value of the primary, or the
\* fallback's when the primary raised
HybridEmbed(primary, text) == IF primary.raised THEN HashVector(text) ELSE primary.v

\* number of passes of the loop of _one, line 68
ONE_ATTEMPTS == 3

InitHybrid ==
  /\ dataFile = 1
  /\ fpFile = NoSidecar /\ npzFile = NoFile /\ npyFile = NoFile
  /\ chunk_len = 0 /\ index_type = "numpy"
  /\ docs = <<>> /\ mat = NoMat /\ bpc = "down" /\ bl = BL0 /\ app = App0
  /\ ing = Ing0
  /\ rpc = "call"
  /\ resp = NoResp
  /\ \E text \in Texts :
       rl = [text |-> text, attempt |-> 0, log |-> <<>>, primary |-> Returned(EmptyVec),
             result |-> EmptyVec]

\* HybridEmbedding.embed, line 21, into _one, lines 63-64: a blank text returns []
OneStart ==
  /\ rpc = "call"
  /\ rpc' = IF strip(rl.text) = <<>> THEN "primary_returned" ELSE "post"
  /\ UNCHANGED <<fileVars, cfgVars, docs, mat, bpc, bl, app, rl, resp, ing>>

\* _one, lines 68-78: one pass of the loop. The request gives a usable vector
\* (returned normalised), an answer without one (next pass), or raises
\* (transport error, timeout, HTTP error), which the except clause catches
OnePost ==
  /\ rpc = "post"
  /\ rl.attempt < ONE_ATTEMPTS
  /\ \E out \in {"vector", "invalid", "raise"} :
       /\ rl' = [rl EXCEPT !.log = Append(@, out),
                           !.attempt = IF out = "invalid" THEN @ + 1 ELSE @,
                           !.primary = IF out = "vector"
                                       THEN Returned(Embedding(strip(rl.text))) ELSE @]
       /\ rpc' = IF out = "vector" THEN "primary_returned"
                 ELSE IF out = "raise" THEN "sleep" ELSE "post"
  /\ UNCHANGED <<fileVars, cfgVars, docs, mat, bpc, bl, app, resp, ing>>

\* _one, line 78: time.sleep in the except clause, then the next pass
OneSleep ==
  /\ rpc = "sleep"
  /\ rpc' = "post"
  /\ rl' = [rl EXCEPT !.attempt = @ + 1]
  /\ UNCHANGED <<fileVars, cfgVars, docs, mat, bpc, bl, app, resp, ing>>

\* _one, line 79: return [] after the last pass
OneExhausted ==
  /\ rpc = "post"
  /\ rl.attempt = ONE_ATTEMPTS
  /\ rpc' = "primary_returned"
  /\ rl' = [rl EXCEPT !.primary = Returned(EmptyVec)]
  /\ UNCHANGED <<fileVars, cfgVars, docs, mat, bpc, bl, app, resp, ing>>

\* HybridEmbedding.embed, lines 20-24
HybridReturn ==
  /\ rpc = "primary_returned"
  /\ rpc' = "returned"
  /\ rl' = [rl EXCEPT !.result = HybridEmbed(rl.primary, rl.text)]
  /\ UNCHANGED <<fileVars, cfgVars, docs, mat, bpc, bl, app, resp, ing>>

NextHybrid == OneStart \/ OnePost \/ OneSleep \/ OneExhausted \/ HybridReturn

SpecHybrid == InitHybrid /\ [][NextHybrid]_vars

\* ------------------------------------------------ the two hash embeddings
\* 8-byte integers in one 64-byte blake2b digest
DIGEST_INTS == 8

\* blake2b digests, told apart by what was hashed: the text, and for a digest
\* of a digest the chain of re-hashes that led to it, 0 for blake2b(h) and
\* c > 0 for blake2b(h + c.to_bytes(4, "little")). Different inputs have
\* different digests
BlakeText(text) == [text |-> text, path |-> <<>>]
BlakeDigest(h) == [h EXCEPT !.path = Append(@, 0)]
BlakeSalted(h, counter) == [h EXCEPT !.path = Append(@, counter)]

\* the integer read from the 8 bytes at place pos of a digest; both functions
\* turn it into a float, centre and normalise the list in the same way, so a
\* vector is told by its list of integers
IntAt(h, pos) == [digest |-> h, pos |-> pos]

\* ingest_service._hash_embedding, the loop of lines 33-41
RECURSIVE HashEmbeddingLoop(_, _, _, _, _, _)
HashEmbeddingLoop(h, buf, pos, counter, need, vals) ==
  IF need <= 0 THEN vals
  ELSE IF pos >= DIGEST_INTS
       THEN HashEmbeddingLoop(h, BlakeSalted(h, counter + 1), 0, counter + 1, need, vals)
       ELSE HashEmbeddingLoop(h, buf, pos + 1, counter, need - 1,
                              Append(vals, IntAt(buf, pos)))

\* ingest_service._hash_embedding(text, dim)
_hash_embedding(text, dim) ==
  HashEmbeddingLoop(BlakeText(text), BlakeText(text), 0, 0, dim, <<>>)

\* HashEmbedding._hash_vec, the loop of lines 21-30
RECURSIVE HashVecLoop(_, _, _, _)
HashVecLoop(h, pos, dim, vals) ==
  IF Len(vals) >= dim THEN vals
  ELSE IF pos >= DIGEST_INTS
       THEN HashVecLoop(BlakeDigest(h), 0, dim, vals)
       ELSE HashVecLoop(h, pos + 1, dim, Append(vals, IntAt(h, pos)))

\* HashEmbedding._hash_vec(text) of an embedder of dimension dim
_hash_vec(text, dim) == HashVecLoop(BlakeText(text), 0, dim, <<>>)

InitHash ==
  /\ dataFile = 1
  /\ fpFile = NoSidecar /\ npzFile = NoFile /\ npyFile = NoFile
  /\ chunk_len = 0 /\ index_type = "numpy"
  /\ docs = <<>> /\ mat = NoMat /\ bpc = "down" /\ bl = BL0 /\ app = App0
  /\ ing = Ing0
  /\ rpc = "hash"
  /\ resp = NoResp
  /\ \E text \in Texts, dim \in 1..MaxDim :
       rl = [text |-> text, dim |-> dim, stored |-> <<>>, query |-> <<>>]

\* _perform_ingest, line 197: the vector stored for an abstract
IngestEmbed ==
  /\ rpc = "hash" /\ rl.stored = <<>>
  /\ rl' = [rl EXCEPT !.stored = _hash_embedding(rl.text, rl.dim)]
  /\ UNCHANGED <<fileVars, cfgVars, docs, mat, bpc, bl, app, rpc, resp, ing>>

\* HashEmbedding.embed, line 38: the vector of a query
QueryEmbed ==
  /\ rpc = "hash" /\ rl.query = <<>>
  /\ rl' = [rl EXCEPT !.query = _hash_vec(rl.text, rl.dim)]
  /\ UNCHANGED <<fileVars, cfgVars, docs, mat, bpc, bl, app, rpc, resp, ing>>

NextHash == IngestEmbed \/ QueryEmbed

SpecHash == InitHash /\ [][NextHash]_vars

\* ---------------------------------------------------------- specification
InitIndex ==
  /\ dataFile \in DataVersions
  /\ fpFile = NoSidecar /\ npzFile = NoFile /\ npyFile = NoFile
  /\ chunk_len \in {0, ChunkBudget}
  /\ index_type \in {"numpy", "cosine"}
  /\ docs = <<>> /\ mat = NoMat /\ bpc = "down" /\ bl = BL0 /\ app = App0
  /\ rpc = "idle" /\ rl = RL0 /\ resp = NoResp
  /\ ing = Ing0

NextIndex ==
  \/ Lifespan \/ BuildBegin \/ ComputeFingerprint \/ Decide
  \/ RebuildLoad \/ RebuildEmbed \/ RebuildBuild \/ RebuildBuildDivide
  \/ RebuildSaveOpen \/ RebuildSaveClose \/ RebuildWriteOpen \/ RebuildWriteDump
  \/ RebuildReturn \/ LoadDocs \/ LoadIndex \/ Finish \/ SetStats \/ BuildFail
  \/ Crash \/ ChangeDataFile
  \/ ReqSearch \/ ReqAnswer \/ ReqDone

SpecIndex == InitIndex /\ [][NextIndex]_vars

\* ------------------------------------------------------------------ claims
RebuildPcs == {"r_load", "r_embed", "r_build", "r_build2", "r_save", "r_save2",
               "r_write", "r_write2", "r_return"}
LoadPcs == {"l_load", "l_index"}

\* the matrix a build from the data file v with chunk budget clen installs
BuiltFrom(v, clen) == Normalize(embed_batch(TextsOf(Corpus(v), clen)))

\* C1: startup() takes the REBUILD path (and returns rebuilt = true, after one
\* embedding call, build, save and fingerprint write) exactly when the persisted
\* fingerprint differs from the current one (or is absent) or no file exists at
\* index_path; otherwise it takes the LOAD path, returns rebuilt = false and
\* makes no embedding call.
C1_RebuildIffStale ==
  /\ bl.branch = "rebuild" <=> (bl.last # bl.current \/ ~bl.exists) /\ bl.branch # "none"
  /\ bpc \in RebuildPcs => bl.branch = "rebuild"
  /\ bpc \in {"r_load", "r_embed", "r_build", "r_build2", "r_save"} =>
       (read_last(fpFile) # bl.current \/ ~Exists(npzFile))
  /\ bpc \in LoadPcs =>
       /\ bl.branch = "load"
       /\ read_last(fpFile) = bl.current /\ Exists(npzFile)
  /\ bl.branch = "load" => bl.embed_calls = 0
  /\ bl.info # None =>
       /\ The(bl.info).rebuilt = (bl.branch = "rebuild")
       /\ The(bl.info).rebuilt =>
            /\ bl.embed_calls = 1
            /\ mat = Array(Normalize(bl.embeddings))
            /\ fpFile = [state |-> "ok", fp |-> bl.current]
            /\ LET f == IF SaveTarget(index_type) = "npz" THEN npzFile ELSE npyFile
               IN f.complete /\ f.rows = mat.rows
       /\ ~The(bl.info).rebuilt => docs # <<>> /\ mat = IndexLoad(index_type, npzFile)

\* a startup() that took the LOAD path has returned
C1_Witness == bpc = "done" /\ app.stats # None /\ ~The(app.stats).rebuilt

\* C2: a persisted fingerprint equal to the current fingerprint, together with
\* an existing index artifact, implies that the artifact is the complete matrix
\* built from the data and configuration that have that fingerprint.
C2_FingerprintVouchesForArtifact ==
  (read_last(fpFile) = Fingerprint(dataFile, chunk_len) /\ Exists(npzFile)) =>
     (npzFile.complete /\ npzFile.rows = BuiltFrom(dataFile, chunk_len))

\* C3: answer(query, k) always returns an Answer; no exception reaches its caller.
C3_AnswerNeverRaises == rpc = "responded" => resp.kind = "answer"

\* a matrix a request may be answered from: built or loaded, every row of unit length
Ready(m) == m.kind = "array" /\ \A i \in 1..Len(m.rows) : m.rows[i].normalized

\* C4: a request whose search reached an index that is absent, partial or
\* corrupt is rejected; it is never given a normal answer.
C4_UnreadyIndexRejected ==
  (rpc = "responded" /\ ~Ready(rl.seen)) => resp.kind = "raise"

\* C5: a search running concurrently with a build observes the previous matrix
\* or the complete normalized new one, never a matrix with a row that is not
\* yet normalized.
C5_SearchSeesNoIntermediate ==
  (rpc \in {"hydrate", "responded"} /\ rl.seen.kind = "array") =>
     \A i \in 1..Len(rl.seen.rows) : rl.seen.rows[i].normalized

\* the text t was embedded from document d under the chunk budget clen
EmbeddedFrom(t, d, clen) ==
  \E i \in 1..Len(_maybe_chunk(d.text, clen)) : _maybe_chunk(d.text, clen)[i] = t

\* C6: every Hit built from index row r carries the doc_id, title and text of
\* the document whose text was embedded into row r.
C6_HitCarriesRowDocument ==
  (rpc = "responded" /\ resp.kind = "answer") =>
     \A i \in 1..Len(resp.hits) :
        LET h == resp.hits[i] IN
        \E j \in 1..Len(DocPool) :
           /\ EmbeddedFrom(rl.seen.rows[h.row + 1].text, DocPool[j], chunk_len)
           /\ h.doc_id = DocPool[j].doc_id
           /\ h.title = DocPool[j].title
           /\ h.chunk = DocPool[j].text

\* the errors ingest_json_service is meant to retry on
Transient == {"AdminShutdown", "OpClosed"}

IngestEnded == ing.pc \in {"done", "raised"}

\* C7: at most three attempts are made; an attempt 1 or 2 that ends in a
\* transient condition is followed by another attempt, and a call whose
\* attempts all end in a transient condition ends by raising after the third
C7_TransientLeadsToAnotherAttempt ==
  /\ ing.attempt <= MAX_ATTEMPTS
  /\ (IngestEnded /\ ing.ended_transient = ing.attempt /\ ing.attempt > 0)
        => (ing.attempt = MAX_ATTEMPTS /\ ing.pc = "raised")

\* C8: an error of an attempt that is not a transient store condition ends the
\* call with that error, in the attempt that raised it and with no connection
\* taken from the pool after it
C8_NonTransientPropagates ==
  LET e == ing.last_error IN
  (e.kind # "" /\ e.kind \notin Transient)
     => /\ ing.pc \in {"raised", "idle"}
        /\ ing.exc = e.kind
        /\ ing.attempt = e.attempt
        /\ ing.getconns = e.getconns

C8_Witness ==
  /\ ing.pc = "raised" /\ ing.exc = "StoreError"
  /\ ing.attempt = 2 /\ ing.ended_transient = 1
  /\ ing.loc.committed # {}

\* C9: every attempt after a transient failure runs on a connection taken from
\* the pool after that failure, and a call that ended with the store reachable
\* and nothing but transient conditions behind it has used its three attempts
C9_RetryOnReacquiredConnection ==
  /\ (ing.pc \in {"start", "read", "flush", "fingerprint"} /\ ing.attempt >= 2)
        => (ing.conn.src = "pool" /\ ing.conn.fresh)
  /\ (ing.pc = "raised" /\ ing.exc \in {"PoolTimeout", "RuntimeError"} /\ ing.storeUp)
        => ing.attempt = MAX_ATTEMPTS

\* C10: the rows of one batch become visible together or not at all: at no
\* moment, and after no failure, is a proper part of a batch committed
C10_BatchIsAtomic ==
  LET B == RowNs(ing.loc.batch) IN
  (ing.loc.committed \cap B) \in {{}, B}

\* the records of the file with doc_id d that the current attempt has written
WrittenFor(d) == {n \in ing.loc.committed : Records[n].doc_id = d}

Latest(ns) == CHOOSE n \in ns : \A m \in ns : m <= n

\* one upsert statement has been executed by this step
UpsertStep == ing.pc = "flush" /\ ing'.loc.upos = ing.loc.upos + 1

\* C11: the store never holds two rows with one doc_id; the row of a doc_id
\* carries title, abstract and embedding of the last record with that doc_id
\* that was written; and each upsert adds one to the updated count when a row
\* with its doc_id was in the store and one to the inserted count when not
C11_UpsertKeyedByDocId ==
  /\ [](\A x, y \in ing.table : x.doc_id = y.doc_id => x = y)
  /\ [](\A d \in DocIds : WrittenFor(d) # {} =>
           RowOf(Records[Latest(WrittenFor(d))]) \in ing.table)
  /\ [][UpsertStep =>
          LET r == ing.loc.batch[ing.loc.upos + 1] IN
          IF \E x \in ing.table : x.doc_id = r.doc_id
          THEN /\ ing'.loc.rows_updated = ing.loc.rows_updated + 1
               /\ ing'.loc.rows_inserted = ing.loc.rows_inserted
          ELSE /\ ing'.loc.rows_inserted = ing.loc.rows_inserted + 1
               /\ ing'.loc.rows_updated = ing.loc.rows_updated]_vars

\* a second ingestion of the file has finished: nothing inserted, all updated,
\* and the row of a carries the title of its last record
C11_Witness ==
  /\ ing.pc = "done" /\ ing.attempt = 1
  /\ The(ing.result).rows_inserted = 0 /\ The(ing.result).rows_updated = 3
  /\ RowOf(Records[4]) \in ing.table

\* lines json.loads rejects; parsed objects with and without the three fields
MalformedLines == {j \in 1..Len(Lines) : ~Lines[j].json}
CompleteRecords ==
  {j \in 1..Len(Records) :
     Records[j].doc_id # "" /\ Records[j].title # "" /\ Records[j].abstract # ""}
IncompleteRecords == (1..Len(Records)) \ CompleteRecords

\* C12: an ingestion of the file that has completed reports every complete
\* record as processed and has counted every line it passed over, the
\* malformed ones included
C12_MalformedLinesCounted ==
  ing.pc = "done" =>
    /\ The(ing.result).rows_processed = Cardinality(CompleteRecords)
    /\ ing.loc.rows_skipped = Cardinality(MalformedLines) + Cardinality(IncompleteRecords)

\* ---- the cutoff of the selector, stated from the scores alone
ScoresOf(hs) == [i \in 1..Len(hs) |-> hs[i].score]

NumBelow(hs, v) == Cardinality({i \in 1..Len(hs) : hs[i].score < v})
NumAtMost(hs, v) == Cardinality({i \in 1..Len(hs) : hs[i].score <= v})

\* the score at place r (from 0) of the scores in ascending order
AtRank(hs, r) ==
  CHOOSE v \in {hs[i].score : i \in 1..Len(hs)} : NumBelow(hs, v) <= r /\ r < NumAtMost(hs, v)

\* twice the median of all scores
MedianTwice(hs) == AtRank(hs, (Len(hs) - 1) \div 2) + AtRank(hs, Len(hs) \div 2)

MaxScore(hs) ==
  CHOOSE v \in {hs[i].score : i \in 1..Len(hs)} : \A i \in 1..Len(hs) : hs[i].score <= v

\* score s >= max(MIN_SIM, 0.35 * max, 0.5 * median)
AtLeastCutoff(hs, s) ==
  /\ s >= MIN_SIM
  /\ 100 * s >= 35 * MaxScore(hs)
  /\ 4 * s >= MedianTwice(hs)

StrongHits(hs) == {i \in 1..Len(hs) : AtLeastCutoff(hs, hs[i].score)}

Smaller(a, b) == IF a < b THEN a ELSE b

\* out holds n different hits of hs out of the set from, best first, and no
\* hit of from that is left out scores higher than one that is in
BestOf(out, hs, from, n) ==
  /\ Len(out) = n
  /\ \A j \in 1..Len(out) : out[j].doc_id \in from /\ out[j] = hs[out[j].doc_id]
  /\ \A j, l \in 1..Len(out) : j < l =>
        out[j].doc_id # out[l].doc_id /\ out[j].score >= out[l].score
  /\ \A i \in from : (\A j \in 1..Len(out) : out[j].doc_id # i) =>
        \A j \in 1..Len(out) : hs[i].score <= out[j].score

\* C13: when some hit clears the cutoff, the selection is the hits that clear
\* it, best first, cut to cite_top_k; scores 0.90, 0.50, 0.40, 0.10 give the
\* selection 0.90, 0.50, 0.40
C13_SelectStrongAboveCutoff ==
  (rpc = "selected" /\ StrongHits(rl.hits) # {}) =>
     /\ BestOf(resp.citations, rl.hits, StrongHits(rl.hits),
               Smaller(Cardinality(StrongHits(rl.hits)), rl.cite_top_k))
     /\ (ScoresOf(rl.hits) = <<90, 50, 40, 10>> /\ rl.cite_top_k = CITE_TOP_K)
           => ScoresOf(resp.citations) = <<90, 50, 40>>

\* three hits clear the cutoff of a list given out of order, two are cited
C13_Witness ==
  /\ rpc = "selected"
  /\ ScoresOf(rl.hits) = <<40, 10, 90, 50>> /\ rl.cite_top_k = 2
  /\ ScoresOf(resp.citations) = <<90, 50>>

\* C14: a hit list that is not empty never gives an empty selection; when no
\* hit clears the cutoff the selection is the best cite_top_k hits of the list
C14_SelectStrongNeverEmpty ==
  (rpc = "selected" /\ rl.hits # <<>>) =>
     /\ resp.citations # <<>>
     /\ StrongHits(rl.hits) = {} =>
          BestOf(resp.citations, rl.hits, 1..Len(rl.hits),
                 Smaller(Len(rl.hits), rl.cite_top_k))

\* scores 0.04 and 0.03 lie under MIN_SIM and are both returned
C14_Witness ==
  /\ rpc = "selected"
  /\ ScoresOf(rl.hits) = <<4, 3>> /\ StrongHits(rl.hits) = {}
  /\ ScoresOf(resp.citations) = <<4, 3>>

\* C15: a search that returned a result list ran on an index that had a matrix:
\* on an index never built or loaded, search fails
C15_SearchBeforeBuildFails ==
  rpc = "hydrate" => rl.seen.kind # "None"

\* C16: on N rows, search for k returns k pairs when k <= N and N pairs when
\* k >= N, of different rows, each with the score of its row, by falling score,
\* and no row left out scores higher than a returned one
C16_SearchReturnsTopK ==
  rpc = "searched" =>
    LET N == Len(rl.sims)
        out == resp.hits
        rows == {out[j].row : j \in 1..Len(out)}
    IN /\ Len(out) = Smaller(rl.k, N)
       /\ \A j \in 1..Len(out) :
            out[j].row \in 0..(N - 1) /\ out[j].score = rl.sims[out[j].row + 1]
       /\ Cardinality(rows) = Len(out)
       /\ \A j \in 1..(Len(out) - 1) : out[j].score >= out[j + 1].score
       /\ \A i \in 0..(N - 1) : i \notin rows =>
            \A j \in 1..Len(out) : rl.sims[i + 1] <= out[j].score

\* two of three rows asked for, the best one in the last row
C16_Witness ==
  /\ rpc = "searched" /\ rl.sims = <<20, 60, 100>> /\ rl.k = 2
  /\ resp.hits = <<[row |-> 2, score |-> 100], [row |-> 1, score |-> 60]>>

\* C17: among rows of equal score the lower row is selected first and comes
\* first: the result is the one the ascending-row tie-break gives
C17_TiesByAscendingRow ==
  rpc = "searched" => resp.hits = TopK(rl.sims, rl.k, 1..Len(rl.sims))

\* C18: load after save with the same path gives back the matrix that was
\* saved, row for row
C18_SaveLoadRoundTrip ==
  rpc = "loaded" => (resp.kind = "loaded" /\ mat = Array(rl.saved))

\* C19: two calls under one file content and configuration give one value, and
\* calls under setups that differ in the content, the dimension, the model, the
\* embedding mode or the chunk length give different values
C19_FingerprintStableAndSensitive ==
  rpc = "fingerprinted" =>
    /\ resp.hits[1] = resp.hits[2]
    /\ (rl.a # rl.b) => resp.hits[1] # resp.hits[3]
    /\ (rl.a = rl.b) => resp.hits[1] = resp.hits[3]

\* the two setups differ in the chunk length alone
C19_Witness ==
  /\ rpc = "fingerprinted"
  /\ rl.a.chunk_len # rl.b.chunk_len
  /\ [rl.a EXCEPT !.chunk_len = rl.b.chunk_len] = rl.b
  /\ resp.hits[1] # resp.hits[3]

\* the sidecar is missing, is not valid JSON, or is JSON without a fingerprint
\* under "fp"
Unusable(f) == f.state # "ok" \/ f.fp = None \/ f.fp = NotAFingerprint

Decided == bpc \notin {"fingerprint", "decide"}

C21_SidecarWriteAtomic ==
  fpFile.state \in {"absent", "ok"}

Answered == rpc = "responded" /\ resp.kind = "answer"

\* C22: an answer to a retrieval without hits is the no-results response, with
\* no citations and no contexts, and the generator has not been called for it
C22_NoHitsShortCircuit ==
  (Answered /\ resp.hits = <<>>) =>
     /\ resp.text = "NO_RESULTS"
     /\ resp.citations = <<>> /\ resp.contexts = <<>>
     /\ ~resp.generated

\* search returned rows, hydration dropped them all
C22_Witness ==
  /\ Answered /\ rl.results # <<>> /\ resp.hits = <<>>
  /\ resp.text = "NO_RESULTS"

\* C23: with hits, a generator that raises or returns blank text gives the
\* fallback message, and citations and contexts are those of the selected hits
C23_FallbackOnGeneratorFailure ==
  (Answered /\ resp.hits # <<>> /\ resp.gen \in {"blank", "raise"}) =>
     /\ resp.text = "DEFAULT_FALLBACK"
     /\ resp.citations = _select_strong(resp.hits, CITE_TOP_K)
     /\ resp.citations # <<>>
     /\ resp.contexts = [i \in 1..Len(resp.citations) |-> resp.citations[i].chunk]

C23_Witness ==
  /\ Answered /\ resp.gen = "raise" /\ Len(resp.hits) = 2
  /\ resp.text = "DEFAULT_FALLBACK" /\ resp.citations # <<>>

Paired(hits, contexts) ==
  /\ Len(contexts) = Len(hits)
  /\ \A i \in 1..Len(hits) : contexts[i] = hits[i].chunk

\* C24: the contexts of a RetrievalResult pair with its hits, entry by entry,
\* as retrieve returned it and after answer has worked on its hit list
C24_ContextsPairWithHits ==
  Answered => (Paired(rl.rr.returned, rl.rr.contexts) /\ Paired(rl.rr.hits, rl.rr.contexts))

\* two rows searched, one of them dropped by hydration
C24_Witness ==
  /\ Answered /\ Len(rl.results) = 2 /\ Len(rl.rr.returned) = 1
  /\ rl.rr.contexts = <<rl.rr.hits[1].chunk>>

\* the rows of a search result the store has a document for
Hydratable(results, ds) == SelectSeq(results, LAMBDA r : r.row + 1 <= Len(ds))

\* C25: retrieve returns a hit for every row the store has a document for, in
\* the order of the search result, and drops the other rows only; the request
\* is answered
C25_HydrationDropsFailedRowOnly ==
  /\ Answered =>
       LET ok == Hydratable(rl.results, rl.store) IN
       /\ Len(rl.rr.returned) = Len(ok)
       /\ \A i \in 1..Len(ok) :
            /\ rl.rr.returned[i].row = ok[i].row
            /\ rl.rr.returned[i].score = ok[i].score
            /\ rl.rr.returned[i].doc_id = rl.store[ok[i].row + 1].doc_id
  /\ (rpc = "responded" /\ resp.kind = "raise") => rl.results = <<>>

\* the first row of the search result has no document, the second has
C25_Witness ==
  /\ Answered /\ Len(rl.results) = 2
  /\ rl.results[1].row + 1 > Len(rl.store)
  /\ Len(rl.rr.returned) = 1 /\ rl.rr.returned[1].row = rl.results[2].row

\* C26: an empty vector the provider leaves in the embeddings of a rebuild is
\* not fatal: the build never fails over embeddings that hold an empty entry
C26_EmptyVectorNeverFatal == bpc = "failed" => ~Ragged(bl.embeddings)

\* the positions whose slot _batch left empty for a non-blank text, in rising
\* order
RECURSIVE MissingFrom(_, _, _)
MissingFrom(batch_out, texts, i) ==
  IF i > Len(texts) THEN <<>>
  ELSE (IF batch_out[i] = EmptyVec /\ strip(texts[i]) # <<>> THEN <<i>> ELSE <<>>)
       \o MissingFrom(batch_out, texts, i + 1)

EmbedReturned == rpc = "returned" /\ resp.kind = "embeddings"

\* C27: embed_batch returns one entry per text, entry i being the vector of
\* texts[i] or empty, and hands to _one exactly the positions _batch left
\* empty for a non-blank text, each once
C27_EmbedBatchAligned ==
  EmbedReturned =>
    /\ Len(resp.hits) = Len(rl.texts)
    /\ \A i \in 1..Len(rl.texts) :
         /\ resp.hits[i] \in {Embedding(strip(rl.texts[i])), EmptyVec}
         /\ rl.batch_out[i] # EmptyVec => resp.hits[i] = rl.batch_out[i]
    /\ rl.asked = MissingFrom(rl.batch_out, rl.texts, 1)

\* a blank text first, then a text whose sub-batch failed and whose retry gave
\* a vector, then a text the batch embedded
C27_Witness ==
  /\ EmbedReturned /\ Len(rl.texts) = 3
  /\ strip(rl.texts[1]) = <<>>
  /\ rl.batch_out[2] = EmptyVec /\ resp.hits[2] = Embedding(strip(rl.texts[2]))
  /\ rl.batch_out[3] # EmptyVec /\ rl.batch_out[3] # rl.batch_out[2]
  /\ resp.hits[3] # resp.hits[2]
  /\ rl.asked = <<2>>

\* a value no non-blank string can be taken from for the field with the
\* aliases keys
Lacks(obj, keys) ==
  \/ obj.type # "dict"
  \/ \A j \in 1..Len(keys) :
       keys[j] \in DOMAIN obj.fields => obj.fields[keys[j]] # "good"

MapEnded == rpc \in {"dropped", "raised", "skipped", "buffered", "not_loaded", "loaded"}

\* C28: a parsed value of the bulk file that lacks a non-blank id, title or
\* body is skipped by the ingestion and counted in rows_skipped, leaves the
\* batch as it is and does not abort the ingestion
C28_UnusableValueSkipped ==
  (/\ MapEnded /\ rl.mapper = "ingest"
   /\ Lacks(rl.obj, IdKeys) \/ Lacks(rl.obj, TitleKeys) \/ Lacks(rl.obj, AbstractKeys))
  => (rpc = "skipped" /\ rl.rows_skipped = 1 /\ rl.batch = <<>>)

\* the place in keys of the first alias whose value is a non-blank string, 0
\* when there is none
FirstGood(obj, keys) ==
  LET good == {j \in 1..Len(keys) :
                 keys[j] \in DOMAIN obj.fields /\ obj.fields[keys[j]] = "good"}
  IN IF good = {} THEN 0 ELSE CHOOSE j \in good : \A i \in good : j <= i

\* the stripped value of that alias
FirstGoodValue(obj, keys) ==
  IF FirstGood(obj, keys) = 0 THEN <<>> ELSE << keys[FirstGood(obj, keys)] >>

\* the fields a loader took are those of the first non-blank aliases
AliasOrderHolds(mapper) ==
  (rl.mapper = mapper /\ rpc \in {"skipped", "buffered", "loaded"}) =>
    /\ rl.mapped.doc_id = FirstGoodValue(rl.obj, IdKeys)
    /\ rl.mapped.title = FirstGoodValue(rl.obj, TitleKeys)
    /\ rl.mapped.body = FirstGoodValue(rl.obj, AbstractKeys)

\* C29: each field of a mapped record is the stripped value of the first alias
\* of id|doc_id|paperId|uid|uuid, title|paper_title|name,
\* abstract|summary|abstract_text|text|description that holds a non-blank
\* string, in the ingestion and in the store's loader
C29_FirstNonBlankAlias == AliasOrderHolds("ingest") /\ AliasOrderHolds("store")

\* C30: when ingest_json_service has returned or raised, no connection it took
\* with getconn() is still checked out of the pool
C30_ConnectionsReturned == ing.pc \in {"done", "raised"} => ing.checked_out = 0

\* C31: the result an ingestion hands back carries rows_skipped next to the
\* other counts, and a successful ingestion is answered as a success
C31_ResultCarriesSkipped ==
  /\ ing.result # None =>
       /\ HasAttr(The(ing.result), "rows_skipped")
       /\ HasAttr(The(ing.result), "rows_processed")
  /\ (ing.pc = "idle" /\ ing.result # None) => ing.response = 200

\* C32: the corpus entry is written only when update_fingerprint is requested
\* and only when every complete record of the file, those of the final batch
\* included, has been upserted by the attempt; without the request no entry is
\* written and the result has no fingerprint
C32_FingerprintAfterAllBatches ==
  /\ [](ing.loc.fp =>
          /\ ing.req.update_fingerprint
          /\ CompleteRecords \subseteq ing.loc.committed
          /\ ing.loc.idx = Len(Records))
  /\ [](ing.result # None => The(ing.result).fingerprint = ing.req.update_fingerprint)
  /\ [][~ing.req.update_fingerprint => ing'.corpus_state = ing.corpus_state]_vars

\* a requested fingerprint written after a final batch smaller than batch_size
C32_Witness ==
  /\ ing.pc = "done" /\ ing.req.update_fingerprint /\ ing.req.batch_size = 2
  /\ ing.loc.final /\ Len(ing.loc.batch) = 1
  /\ ing.loc.fp /\ ing.corpus_state /\ The(ing.result).fingerprint

RECURSIVE Flatten(_)
Flatten(chunks) == IF chunks = <<>> THEN <<>> ELSE Head(chunks) \o Flatten(Tail(chunks))

\* C33: with budget 0 the text is one unit; with a positive budget no chunk is
\* longer than the budget; the chunks in order hold the sentences of the text
\* in order
C33_ChunksWithinBudget ==
  rpc = "chunked" =>
    /\ rl.max_len = 0 => rl.chunks = <<rl.text>>
    /\ rl.max_len > 0 =>
         \A c \in 1..Len(rl.chunks) : TextLen(rl.chunks[c]) <= rl.max_len
    /\ Flatten(rl.chunks) = rl.text

\* C34: a startup() that finds the persisted fingerprint equal to the current
\* one (a rebuild for this data file and configuration has completed) takes the
\* LOAD path, whichever index implementation is configured
C34_RebuildThenLoad ==
  (bl.branch # "none" /\ bl.last # None /\ bl.last = bl.current) => bl.branch = "load"

\* the texts the rows of a matrix were embedded from
MatTexts(m) == [i \in 1..Len(m.rows) |-> m.rows[i].text]

\* C35: the document list of the store is the one the live matrix was built
\* from, at every instant and for the pair of matrix and document list every
\* answered request has used
C35_DocsMatchMatrix ==
  /\ mat.kind = "array" => MatTexts(mat) = TextsOf(docs, chunk_len)
  /\ (Answered /\ rl.seen.kind = "array") =>
       MatTexts(rl.seen) = TextsOf(rl.store, chunk_len)

\* C36: HybridEmbedding.embed of a non-blank text never returns an empty
\* vector; when the provider gave no vector in any pass the result is the
\* HashEmbedding vector of the text
C36_HybridNeverEmpty ==
  (rpc = "returned" /\ strip(rl.text) # <<>>) =>
    /\ rl.result # EmptyVec
    /\ (\A j \in 1..Len(rl.log) : rl.log[j] # "vector") => rl.result = HashVector(rl.text)

\* C37: a successful result has rows_processed = rows_inserted + rows_updated,
\* and the attempt that produced it has upserted exactly the complete records
\* of the file, counting each once; during an attempt the two counts add up to
\* the number of rows it has written
C37_ProcessedIsInsertedPlusUpdated ==
  /\ ing.result # None =>
       LET res == The(ing.result) IN
       /\ res.rows_processed = res.rows_inserted + res.rows_updated
       /\ res.rows_processed = Cardinality(CompleteRecords)
       /\ ing.loc.committed = CompleteRecords
  /\ ing.pc \in {"read", "flush", "fingerprint"} =>
       ing.loc.rows_inserted + ing.loc.rows_updated = Cardinality(ing.loc.committed)

\* a second attempt succeeded after the first had written a row: that row is
\* counted as updated now, the others as inserted
C37_Witness ==
  /\ ing.pc = "done" /\ ing.attempt = 2
  /\ The(ing.result).rows_inserted > 0 /\ The(ing.result).rows_updated > 1
  /\ The(ing.result).rows_processed = 3

\* C38: the buffer never holds more than batch_size records; records are
\* upserted in the order of the file; a successful attempt has upserted every
\* complete record and left none only in the buffer
C38_BatchesBoundedAndFlushed ==
  /\ [](Len(ing.loc.batch) <= ing.req.batch_size)
  /\ [][UpsertStep =>
          \A m \in ing.loc.committed : m < ing.loc.batch[ing.loc.upos + 1].n]_vars
  /\ [](ing.pc = "done" =>
          /\ CompleteRecords \subseteq ing.loc.committed
          /\ RowNs(ing.loc.batch) \subseteq ing.loc.committed)

\* batch_size 2 and three complete records: the last one went out in a final
\* batch of one
C38_Witness ==
  /\ ing.pc = "done" /\ ing.req.batch_size = 2 /\ ~ing.req.update_fingerprint
  /\ ing.loc.final /\ RowNs(ing.loc.batch) = {4}
  /\ ing.loc.committed = {1, 3, 4}

\* C39: for the same text and dimension the vector ingestion stores and the
\* vector HashEmbedding gives a query are the same
C39_HashEmbeddingsAgree ==
  (rpc = "hash" /\ rl.stored # <<>> /\ rl.query # <<>>) => rl.stored = rl.query

\* the moves of index_build_status within one process
StatusMoves ==
  {<<"not_started", "building">>, <<"building", "complete">>, <<"building", "failed">>}

====
